---- MODULE Spec2Model ----
(***************************************************************************)
(* Streaming breakout strategy engine (core_logic/LiveStrategyEngine.py)   *)
(* and its batch twin (bin/base_strategy.py).                              *)
(*                                                                         *)
(* Numbers.  Prices and quantities are integers.  Timestamps are seconds   *)
(* of naive local (IST) time counted from local midnight of model day 0;   *)
(* a tick's ltt is epoch milliseconds (UTC) counted from the same day.     *)
(* Values the code holds as floats that are not integers (VWAP, stop-loss, *)
(* take-profit) are exact rationals <<num, den>> with den > 0, and every   *)
(* comparison on them is done by cross-multiplication.  The exponential    *)
(* moving average is compared through its weights, which are held at a     *)
(* resolution of 1/EMA_SCALE.                                              *)
(***************************************************************************)
EXTENDS Integers, Sequences, FiniteSets, TLC

VARIABLES
    df,                 \* LiveStrategyEngine.df: the candle series
    current_minute,     \* LiveStrategyEngine.current_minute: None or <<bucket>>
    long_taken_today,   \* LiveStrategyEngine.long_taken_today
    short_taken_today,  \* LiveStrategyEngine.short_taken_today
    active_position,    \* LiveStrategyEngine.active_position
    pdh,                \* LiveStrategyEngine.pdh: None or <<price>>
    pdl,                \* LiveStrategyEngine.pdl: None or <<price>>
    today_date,         \* LiveStrategyEngine.today_date: None or <<day>>
    result,             \* what the last update_candle call returned
    signals,            \* every non-None value update_candle returned, in order
    saved,              \* the candles handed to _save_completed_candle, in order
    nseed,              \* number of rows loaded from the store at construction
    nticks,             \* number of ticks processed so far
    last_tick,          \* the tick of the last update_candle call: <<ltt, ltp, ltq>>
    bucket_ticks,       \* the <<ltp, ltq>> of the ticks that made the last candle
    reset_dates,        \* the dates process_strategy has set today_date to, in order
    save_errors,        \* number of "Error saving candle to DB" lines logged
    vwap,               \* process_strategy: df["VWAP"] of the last row at the last
                        \* evaluation, None or <<value>>
    feed,               \* the inputs the environment draws from: "regular", "heavy"
                        \* (large quantities), "late" (ticks after trade_end, rows
                        \* at lunch), "faulty" (the candle store may fail a write),
                        \* "plain" (in-order ticks of one day, for the messages)
    other_ticks,        \* main.py: number of update_candle calls made on the engine
                        \* of the second symbol of engines
    other_engine,       \* main.py: the engine of the second symbol of engines, as a
                        \* record of its fields
    nmsgs,              \* main.py: number of on_message calls so far
    last_msg,           \* main.py: the msg of the last on_message call, None before
    db_rows,            \* candle_db.py: the rows of the table candles
    db_op,              \* candle_db.py: the last call on CandleDB, its arguments and
                        \* what it returned, and the number of calls so far
    sys_tz,             \* the UTC offset, in seconds, of the time zone of the host
    seeding,            \* _load_historical_data and fetch_and_store_candles: where
                        \* the call stands and its local variables
    bot,                \* bot_controller.py: trading_process, trading_status and the
                        \* last call on the controller
    mode,               \* which program runs: "live" (main.py), "batch"
                        \* (base_strategy.py), "replay" (the batch driver on the
                        \* series the live engine has built) or "store"
                        \* (calls on candle_db.py)
    bt_df,              \* compute_intraday_strategy: the candle table df
    bt_k,               \* number of leading rows of the table that are stored rows
    bt_i,               \* number of rows the execution loop has processed
    avoid_lunch,        \* compute_intraday_strategy: parameter avoid_lunch
    longTakenToday,     \* compute_intraday_strategy: longTakenToday
    shortTakenToday,    \* compute_intraday_strategy: shortTakenToday
    bt_position,        \* compute_intraday_strategy: active_position
    prev_date,          \* compute_intraday_strategy: prev_date, None or <<day>>
    trades,             \* compute_intraday_strategy: trades
    bt_cols             \* compute_intraday_strategy: the columns VWAP, PDH, PDL of the
                        \* row the loop has just processed

live_vars == <<df, current_minute, long_taken_today, short_taken_today,
               active_position, pdh, pdl, today_date, result, signals, saved, nseed,
               nticks, last_tick, bucket_ticks, reset_dates, save_errors, vwap>>
batch_vars == <<bt_df, bt_k, bt_i, avoid_lunch, longTakenToday, shortTakenToday,
                bt_position, prev_date, trades, bt_cols>>
msg_vars == <<other_ticks, other_engine, nmsgs, last_msg>>
store_vars == <<db_rows, db_op, sys_tz, seeding, bot>>
vars == <<live_vars, batch_vars, mode, feed, msg_vars, store_vars>>

-----------------------------------------------------------------------------
(* Program constants *)

MIN_CANDLES == 210
STOCK_DAYS_NEED == 3
TRADE_START_TIME == 915
TRADE_END_TIME == 1525
EMA_LEN == 200
VOL_LEN == 20
VOL_MULT_X10 == 15
RR_X10 == 16
VWAP_DIST_X100 == 15
SL_BUFFER_X100 == 8
trade_start == 915
trade_end == 1525
IST_OFFSET_S == 19800
BUCKET_MINUTES == 5

-----------------------------------------------------------------------------
(* Bounds of the model *)

MaxTicks == 3
MaxRows == 3
MaxReplayTicks == 2
MaxMessages == 2
MaxStoreOps == 3
MaxDayOffset == 8
EMA_SCALE == 32768

\* the stored series the engine may be constructed on
HistLens == {MIN_CANDLES - 2, MIN_CANDLES}
SeedLens == HistLens
\* the stored rows a batch table may start with
BatchSeedLens == {VOL_LEN - 2, VOL_LEN}
AllSeedLens == HistLens \cup BatchSeedLens
MaxSeed == MIN_CANDLES
MaxGap == MaxTicks + MaxRows
MaxLen == MaxSeed + MaxGap
\* the calendar of the model: the store ends on day 2
MaxDate == 3 + MaxTicks + MaxRows

-----------------------------------------------------------------------------
(* Values *)

None == <<>>
Some(v) == <<v>>

\* active_position is None
NoPosition == [side |-> "NONE"]
\* update_candle returned None
NoSignal == [signal |-> "NONE"]

\* Exact rationals.
Rat(n, d) == <<n, d>>
RInt(i) == <<i, 1>>
RLt(a, b) == a[1] * b[2] < b[1] * a[2]
RLe(a, b) == a[1] * b[2] <= b[1] * a[2]
REq(a, b) == a[1] * b[2] = b[1] * a[2]
RMin(a, b) == IF RLe(a, b) THEN a ELSE b
RMax(a, b) == IF RLe(a, b) THEN b ELSE a

Abs(x) == IF x < 0 THEN -x ELSE x

\* datetime fields of a naive local timestamp in seconds
DateOf(ts) == ts \div 86400
HourOf(ts) == (ts % 86400) \div 3600
MinuteOf(ts) == (ts % 3600) \div 60
SecondOf(ts) == ts % 60

RECURSIVE Gcd(_, _)
Gcd(a, b) == IF b = 0 THEN a ELSE Gcd(b, a % b)

\* A float value as a rational in lowest terms.
Norm(n, d) == LET g == Gcd(Abs(n), d) IN <<n \div g, d \div g>>

-----------------------------------------------------------------------------
(* The candle series.  A series is the rows loaded from the candle store    *)
(* followed by the rows added since.  The stored rows are fixed, so the      *)
(* part of every sum and extremum that runs over them is computed once      *)
(* (the Seed... tables); k is the number of leading rows of the series that  *)
(* are stored rows (SeedIntact states that they are never modified).         *)

Candle(ts, o, h, l, c, v) ==
    [timestamp |-> ts, open |-> o, high |-> h, low |-> l, close |-> c, volume |-> v]

\* Row i of the store: 75 candles a day from 09:15 to 15:25, days 0, 1, 2, ...
HistCandle(i) ==
    Candle(((i - 1) \div 75) * 86400 + 33300 + ((i - 1) % 75) * 300, 14, 15, 13, 14, 1)

Hist(n) == [i \in 1..n |-> HistCandle(i)]

Min2(a, b) == IF a <= b THEN a ELSE b

\* Sum of F over lo..hi (split in halves: the series is long)
RECURSIVE SumOver(_, _, _)
SumOver(F(_), lo, hi) ==
    IF hi < lo THEN 0
    ELSE IF lo = hi THEN F(lo)
    ELSE LET mid == (lo + hi) \div 2 IN SumOver(F, lo, mid) + SumOver(F, mid + 1, hi)

\* the greatest / least of two optional values
OptMax(a, b) == IF a = None THEN b ELSE IF b = None THEN a ELSE IF b[1] > a[1] THEN b ELSE a
OptMin(a, b) == IF a = None THEN b ELSE IF b = None THEN a ELSE IF b[1] < a[1] THEN b ELSE a

\* Greatest / least F(i) over the i in lo..hi with P(i); None when there is none
RECURSIVE MaxOver(_, _, _, _)
MaxOver(F(_), P(_), lo, hi) ==
    IF hi < lo THEN None
    ELSE IF lo = hi THEN (IF P(lo) THEN Some(F(lo)) ELSE None)
    ELSE LET mid == (lo + hi) \div 2 IN
         OptMax(MaxOver(F, P, lo, mid), MaxOver(F, P, mid + 1, hi))

RECURSIVE MinOver(_, _, _, _)
MinOver(F(_), P(_), lo, hi) ==
    IF hi < lo THEN None
    ELSE IF lo = hi THEN (IF P(lo) THEN Some(F(lo)) ELSE None)
    ELSE LET mid == (lo + hi) \div 2 IN
         OptMin(MinOver(F, P, lo, mid), MinOver(F, P, mid + 1, hi))

-----------------------------------------------------------------------------
(* Indicators at row n, over the whole series up to row n as the code does  *)

\* (variant: the sum starts again at the first candle of each date)
CumCVDaily(d, k, n) ==
    SumOver(LAMBDA i : IF DateOf(d[i].timestamp) = DateOf(d[n].timestamp)
                       THEN d[i].close * d[i].volume ELSE 0, 1, n)

\* (close * volume).cumsum() at row n
SeedCV == [m \in 0..MaxSeed |->
             SumOver(LAMBDA i : HistCandle(i).close * HistCandle(i).volume, 1, m)]
CumCV(d, k, n) ==
    SeedCV[Min2(k, n)] + SumOver(LAMBDA i : d[i].close * d[i].volume, k + 1, n)

\* volume.cumsum() at row n
SeedV == [m \in 0..MaxSeed |-> SumOver(LAMBDA i : HistCandle(i).volume, 1, m)]
CumV(d, k, n) == SeedV[Min2(k, n)] + SumOver(LAMBDA i : d[i].volume, k + 1, n)

\* volume.rolling(VOL_LEN).sum() at row n (n >= VOL_LEN)
SumV(d, lo, hi) == SumOver(LAMBDA i : d[i].volume, lo, hi)

\* (1 - alpha)^j with alpha = 2 / (span + 1), scaled by EMA_SCALE and rounded down
\* (by repeated squaring: w^(2j) = w^j * w^j)
RECURSIVE EmaWeight(_)
EmaWeight(j) ==
    IF j = 0 THEN EMA_SCALE
    ELSE IF j % 2 = 0 THEN LET h == EmaWeight(j \div 2) IN (h * h) \div EMA_SCALE
    ELSE (EmaWeight(j - 1) * (EMA_LEN - 1)) \div (EMA_LEN + 1)

EmaW == [j \in 0..MaxLen |-> EmaWeight(j)]

\* rows follow the m stored ones only when m is the length of a store
GapsAfter(m) == IF m \in AllSeedLens THEN 0..MaxGap ELSE {0}

\* sum over rows i = 1..n of (1 - alpha)^(n-i) * (c - close_i)
SeedW == [m \in 0..MaxSeed |-> [g \in GapsAfter(m) |->
            SumOver(LAMBDA i : EmaW[m + g - i], 1, m)]]
SeedWC == [m \in 0..MaxSeed |-> [g \in GapsAfter(m) |->
            SumOver(LAMBDA i : EmaW[m + g - i] * HistCandle(i).close, 1, m)]]
EmaDev(d, k, n, c) ==
    LET m == Min2(k, n) IN
    c * SeedW[m][n - m] - SeedWC[m][n - m]
      + SumOver(LAMBDA i : EmaW[n - i] * (c - d[i].close), m + 1, n)

\* close.ewm(span=EMA_LEN).mean() (adjust=True, the pandas default): the sign of
\* c - EMA200 at row n, where EMA200 = sum w^(n-i) close_i / sum w^(n-i).
LiveTrendSign(d, k, n, c) == EmaDev(d, k, n, c)

\* prev["high"].max() and prev["low"].min() over prev = df[df.timestamp.dt.date !=
\* cur_date], rows 1..n (n >= k); None when prev is empty
IsPrevRow(ts, cur_date) == DateOf(ts) # cur_date

SeedPrevHigh == [m \in SeedLens |-> [dt \in 0..MaxDate |->
    MaxOver(LAMBDA i : HistCandle(i).high,
            LAMBDA i : IsPrevRow(HistCandle(i).timestamp, dt), 1, m)]]
SeedPrevLow == [m \in SeedLens |-> [dt \in 0..MaxDate |->
    MinOver(LAMBDA i : HistCandle(i).low,
            LAMBDA i : IsPrevRow(HistCandle(i).timestamp, dt), 1, m)]]

PrevHigh(d, k, n, cur_date) ==
    OptMax(SeedPrevHigh[k][cur_date],
           MaxOver(LAMBDA i : d[i].high,
                   LAMBDA i : IsPrevRow(d[i].timestamp, cur_date), k + 1, n))
PrevLow(d, k, n, cur_date) ==
    OptMin(SeedPrevLow[k][cur_date],
           MinOver(LAMBDA i : d[i].low,
                   LAMBDA i : IsPrevRow(d[i].timestamp, cur_date), k + 1, n))

\* curTime = hour * 100 + minute
CurTime(ts) == HourOf(ts) * 100 + MinuteOf(ts)

\* (variant: an average that is not defined yet counts as zero)
VolOkNanAsZero(d, n) ==
    IF n >= VOL_LEN
    THEN d[n].volume * VOL_LEN * 10 > SumV(d, n - VOL_LEN + 1, n) * VOL_MULT_X10
    ELSE d[n].volume > 0

\* row.volume > row.VolMA * VOL_MULT, False while VolMA is NaN (fewer than VOL_LEN rows)
VolOk(d, n) ==
    /\ n >= VOL_LEN
    /\ d[n].volume * VOL_LEN * 10 > SumV(d, n - VOL_LEN + 1, n) * VOL_MULT_X10

\* abs(close - VWAP) / VWAP * 100 >= VWAP_DIST with VWAP = cv / v, False when VWAP is NaN
VwapOk(close, cv, v) ==
    /\ v > 0
    /\ cv > 0
    /\ Abs(close * v - cv) * 100 * 100 >= VWAP_DIST_X100 * cv

\* VWAP * (1 - SL_BUFFER/100) and VWAP * (1 + SL_BUFFER/100)
SlVwapLong(cv, v) == Norm(cv * (10000 - SL_BUFFER_X100), v * 10000)
SlVwapShort(cv, v) == Norm(cv * (10000 + SL_BUFFER_X100), v * 10000)

\* sl = min(sl_vwap, row.low) and sl = max(sl_vwap, row.high)
LongSl(row, cv, v) == RMin(SlVwapLong(cv, v), RInt(row.low))
ShortSl(row, cv, v) == RMax(SlVwapShort(cv, v), RInt(row.high))

\* (variant: the target is as far from the close as the stop, RR left out)
TakeProfitOneToOne(close, sl) == Norm(2 * close * sl[2] - sl[1], sl[2])

\* tp = close + (close - sl) * RR  and  tp = close - (sl - close) * RR
TakeProfit(close, sl) ==
    Norm(10 * close * sl[2] + RR_X10 * (close * sl[2] - sl[1]), 10 * sl[2])

Position(side, entry, sl, tp) == [side |-> side, entry |-> entry, sl |-> sl, tp |-> tp]
EntrySignal(sig, entry, sl, tp) == [signal |-> sig, entry_price |-> entry, sl |-> sl, tp |-> tp]
ExitSignal(reason, price) == [signal |-> "EXIT", reason |-> reason, exit_price |-> price]

-----------------------------------------------------------------------------
(* LiveStrategyEngine.process_strategy on the series d: the value returned  *)
(* and the fields of the engine afterwards                                  *)

Outcome(res, today, ltaken, staken, h, l, pos) ==
    [result |-> res, today_date |-> today, long_taken_today |-> ltaken,
     short_taken_today |-> staken, pdh |-> h, pdl |-> l, active_position |-> pos]

\* (variant: the open position is not looked at before the entry blocks)
HasPositionNever(pos) == FALSE

\* (variant: only a long position counts as open)
HasPositionLongOnly(pos) == pos # NoPosition /\ pos.side = "LONG"

\* (variant: only a short position counts as open)
HasPositionShortOnly(pos) == pos # NoPosition /\ pos.side = "SHORT"

\* if self.active_position:
HasPosition(pos) == pos # NoPosition

\* (variant: the target is tested before the stop)
LiveExitTargetFirst(row, pos) ==
    IF pos.side = "LONG" /\ RLe(pos.tp, RInt(row.high)) THEN ExitSignal("TP HIT", pos.tp)
    ELSE IF pos.side = "LONG" /\ RLe(RInt(row.low), pos.sl) THEN ExitSignal("SL HIT", pos.sl)
    ELSE IF pos.side = "SHORT" /\ RLe(RInt(row.low), pos.tp) THEN ExitSignal("TP HIT", pos.tp)
    ELSE IF pos.side = "SHORT" /\ RLe(pos.sl, RInt(row.high)) THEN ExitSignal("SL HIT", pos.sl)
    ELSE NoSignal

\* (variant: the exit is priced at the candle's extreme instead of the stored level)
LiveExitAtCandle(row, pos) ==
    IF pos.side = "LONG" /\ RLe(RInt(row.low), pos.sl) THEN ExitSignal("SL HIT", RInt(row.low))
    ELSE IF pos.side = "LONG" /\ RLe(pos.tp, RInt(row.high)) THEN ExitSignal("TP HIT", RInt(row.high))
    ELSE IF pos.side = "SHORT" /\ RLe(pos.sl, RInt(row.high)) THEN ExitSignal("SL HIT", RInt(row.high))
    ELSE IF pos.side = "SHORT" /\ RLe(RInt(row.low), pos.tp) THEN ExitSignal("TP HIT", RInt(row.low))
    ELSE NoSignal

\* the HANDLE OPEN POSITION block
LiveExit(row, pos) ==
    IF pos.side = "LONG" /\ RLe(RInt(row.low), pos.sl) THEN ExitSignal("SL HIT", pos.sl)
    ELSE IF pos.side = "LONG" /\ RLe(pos.tp, RInt(row.high)) THEN ExitSignal("TP HIT", pos.tp)
    ELSE IF pos.side = "SHORT" /\ RLe(pos.sl, RInt(row.high)) THEN ExitSignal("SL HIT", pos.sl)
    ELSE IF pos.side = "SHORT" /\ RLe(RInt(row.low), pos.tp) THEN ExitSignal("TP HIT", pos.tp)
    ELSE NoSignal

\* (variant: the time of day is not looked at)
CanTradeAnyTime(ts) == TRUE

\* can_trade
LiveCanTrade(ts) == trade_start <= CurTime(ts) /\ CurTime(ts) <= trade_end

\* long_break and short_break
LongBreak(h, close, prev_close) == h # None /\ close > h[1] /\ prev_close <= h[1]
ShortBreak(l, close, prev_close) == l # None /\ close < l[1] /\ prev_close >= l[1]

\* the condition of the ENTRY: LONG block and of the ENTRY: SHORT block
LiveLongCond(d, k, n, cv, v, h) ==
    /\ LiveCanTrade(d[n].timestamp)
    /\ VolOk(d, n)
    /\ VwapOk(d[n].close, cv, v)
    /\ LiveTrendSign(d, k, n, d[n].close) > 0
    /\ LongBreak(h, d[n].close, d[n - 1].close)

LiveShortCond(d, k, n, cv, v, l) ==
    /\ LiveCanTrade(d[n].timestamp)
    /\ VolOk(d, n)
    /\ VwapOk(d[n].close, cv, v)
    /\ LiveTrendSign(d, k, n, d[n].close) < 0
    /\ ShortBreak(l, d[n].close, d[n - 1].close)

\* (variant: the series is evaluated whatever its length)
TooFewCandlesNever(n) == FALSE

\* if len(df) < 210: return None
TooFewCandles(n) == n < MIN_CANDLES

\* (variant: the computed risk is not looked at)
RiskAlwaysPositive(side, close, sl) == TRUE

\* if sl < row.close (long), if sl > row.close (short)
RiskPositive(side, close, sl) ==
    IF side = "LONG" THEN RLt(sl, RInt(close)) ELSE RLt(RInt(close), sl)

process_strategy(d, k) ==
    LET n == Len(d) IN
    IF TooFewCandles(n)
    THEN Outcome(NoSignal, today_date, long_taken_today, short_taken_today,
                 pdh, pdl, active_position)
    ELSE
    LET row == d[n]
        cur_date == DateOf(row.timestamp)
        reset == today_date # Some(cur_date)
        today1 == IF reset THEN Some(cur_date) ELSE today_date
        lt1 == IF reset THEN FALSE ELSE long_taken_today
        st1 == IF reset THEN FALSE ELSE short_taken_today
        ph == PrevHigh(d, k, n, cur_date)
        hasPrev == reset /\ ph # None
        pdh1 == IF hasPrev THEN ph ELSE pdh
        pdl1 == IF hasPrev THEN PrevLow(d, k, n, cur_date) ELSE pdl
        cv == CumCV(d, k, n)
        v == CumV(d, k, n)
    IN
    IF HasPosition(active_position)
    THEN LET ex == LiveExit(row, active_position) IN
         Outcome(ex, today1, lt1, st1, pdh1, pdl1,
                 IF ex = NoSignal THEN active_position ELSE NoPosition)
    ELSE IF LiveLongCond(d, k, n, cv, v, pdh1)
            /\ RiskPositive("LONG", row.close, LongSl(row, cv, v))
    THEN LET sl == LongSl(row, cv, v)
             tp == TakeProfit(row.close, sl)
         IN  Outcome(EntrySignal("BUY", row.close, sl, tp), today1, lt1, st1, pdh1, pdl1,
                     Position("LONG", row.close, sl, tp))
    ELSE IF LiveShortCond(d, k, n, cv, v, pdl1)
            /\ RiskPositive("SHORT", row.close, ShortSl(row, cv, v))
    THEN LET sl == ShortSl(row, cv, v)
             tp == TakeProfit(row.close, sl)
         IN  Outcome(EntrySignal("SELL", row.close, sl, tp), today1, lt1, st1, pdh1, pdl1,
                     Position("SHORT", row.close, sl, tp))
    ELSE Outcome(NoSignal, today1, lt1, st1, pdh1, pdl1, NoPosition)

-----------------------------------------------------------------------------
(* LiveStrategyEngine.update_candle                                         *)

\* the 5-minute bucket of a tick: ltt // 1000, + 5:30, second = 0, minute // 5 * 5
BucketOf(ltt) ==
    LET ts == (ltt \div 1000) + IST_OFFSET_S
        m == ts - SecondOf(ts)
    IN  m - (MinuteOf(m) % BUCKET_MINUTES) * 60

\* (variant: the series is a window: a new candle pushes the oldest one out)
TickSeriesWindow(minute_ts, price, vol) ==
    IF current_minute # Some(minute_ts)
    THEN Append(Tail(df), Candle(minute_ts, price, price, price, price, vol))
    ELSE LET idx == Len(df)
             c == df[idx]
         IN  [df EXCEPT ![idx] = Candle(c.timestamp, c.open,
                                        IF price > c.high THEN price ELSE c.high,
                                        IF price < c.low THEN price ELSE c.low,
                                        price, c.volume + vol)]

\* (variant: a tick of the current bucket leaves the close as it was)
TickSeriesKeepClose(minute_ts, price, vol) ==
    IF current_minute # Some(minute_ts)
    THEN Append(df, Candle(minute_ts, price, price, price, price, vol))
    ELSE LET idx == Len(df)
             c == df[idx]
         IN  [df EXCEPT ![idx] = Candle(c.timestamp, c.open,
                                        IF price > c.high THEN price ELSE c.high,
                                        IF price < c.low THEN price ELSE c.low,
                                        c.close, c.volume + vol)]

\* the series after the tick
TickSeries(minute_ts, price, vol) ==
    IF current_minute # Some(minute_ts)
    THEN Append(df, Candle(minute_ts, price, price, price, price, vol))
    ELSE LET idx == Len(df)
             c == df[idx]
         IN  [df EXCEPT ![idx] = Candle(c.timestamp, c.open,
                                        IF price > c.high THEN price ELSE c.high,
                                        IF price < c.low THEN price ELSE c.low,
                                        price, c.volume + vol)]

\* update_candle on an engine e held as a record, while its series stays shorter than
\* MIN_CANDLES: the tick is aggregated into e.df and process_strategy returns None
\* before it assigns anything
update_candle_short(e, ltt, price, vol) ==
    LET minute_ts == BucketOf(ltt)
        idx == Len(e.df)
    IN  IF e.current_minute # Some(minute_ts)
        THEN [e EXCEPT !.df = Append(e.df, Candle(minute_ts, price, price, price, price, vol)),
                       !.current_minute = Some(minute_ts)]
        ELSE [e EXCEPT !.df[idx] =
                 Candle(e.df[idx].timestamp, e.df[idx].open,
                        IF price > e.df[idx].high THEN price ELSE e.df[idx].high,
                        IF price < e.df[idx].low THEN price ELSE e.df[idx].low,
                        price, e.df[idx].volume + vol)]

\* (variant: the failure of the write is not caught)
save_completed_candle_unguarded(candle, db_ok) ==
    [saved |-> IF db_ok THEN Append(saved, candle) ELSE saved,
     save_errors |-> save_errors,
     raised |-> ~db_ok]

\* _save_completed_candle: db.insert_candle inside try / except Exception; db_ok tells
\* whether the write succeeds.  The candles written, the error lines logged, and
\* whether an exception leaves the method.
save_completed_candle(candle, db_ok) ==
    [saved |-> IF db_ok THEN Append(saved, candle) ELSE saved,
     save_errors |-> IF db_ok THEN save_errors ELSE save_errors + 1,
     raised |-> FALSE]

\* (variant: the last candle is written on every tick, open or not)
HasCompletedCandleAnyTick(minute_ts) == current_minute # None /\ Len(df) > 0

\* if self.current_minute != minute_ts: if self.current_minute is not None and
\* len(self.df) > 0: the tick closes the last candle of the series
HasCompletedCandle(minute_ts) ==
    current_minute # Some(minute_ts) /\ current_minute # None /\ Len(df) > 0

update_candle(ltt, price, vol, db_ok) ==
    LET minute_ts == BucketOf(ltt)
        d1 == TickSeries(minute_ts, price, vol)
        out == process_strategy(d1, nseed)
        sv == IF HasCompletedCandle(minute_ts)
              THEN save_completed_candle(df[Len(df)], db_ok)
              ELSE [saved |-> saved, save_errors |-> save_errors, raised |-> FALSE]
    IN  /\ nticks < (IF mode = "replay" THEN MaxReplayTicks ELSE MaxTicks)
        /\ nticks' = nticks + 1
        /\ nseed' = nseed
        /\ last_tick' = <<ltt, price, vol>>
        /\ IF sv.raised
           THEN \* an exception leaves update_candle before anything is assigned
                /\ result' = NoSignal
                /\ UNCHANGED <<df, current_minute, long_taken_today, short_taken_today,
                               active_position, pdh, pdl, today_date, signals, saved,
                               bucket_ticks, reset_dates, save_errors, vwap>>
           ELSE /\ bucket_ticks' = IF current_minute # Some(minute_ts) THEN << <<price, vol>> >>
                                   ELSE Append(bucket_ticks, <<price, vol>>)
                /\ saved' = sv.saved
                /\ vwap' = IF TooFewCandles(Len(d1)) THEN vwap
                           ELSE Some(Norm(CumCV(d1, nseed, Len(d1)), CumV(d1, nseed, Len(d1))))
                /\ save_errors' = sv.save_errors
                /\ reset_dates' = IF out.today_date # today_date
                                  THEN Append(reset_dates, out.today_date[1])
                                  ELSE reset_dates
                /\ current_minute' = Some(minute_ts)
                /\ df' = d1
                /\ today_date' = out.today_date
                /\ long_taken_today' = out.long_taken_today
                /\ short_taken_today' = out.short_taken_today
                /\ pdh' = out.pdh
                /\ pdl' = out.pdl
                /\ active_position' = out.active_position
                /\ result' = out.result
                /\ signals' = IF out.result = NoSignal THEN signals
                              ELSE Append(signals, [sig |-> out.result,
                                                    timestamp |-> d1[Len(d1)].timestamp])

-----------------------------------------------------------------------------
(* bin/base_strategy.py: compute_intraday_strategy.  The columns computed   *)
(* before the loop are operators of the row index; the loop is BatchRow.    *)

\* ema(close, ema_len) = close.ewm(span, adjust=False).mean(): the sign of c - EMA200
\* at row n, where EMA200_1 = close_1 and EMA200_i = (1 - alpha) EMA200_(i-1) + alpha close_i,
\* i.e. weight (1 - alpha)^(n-1) on row 1 and alpha (1 - alpha)^(n-i) on row i > 1
BatchTrendSign(d, k, n, c) ==
    2 * EmaDev(d, k, n, c) + (EMA_LEN - 1) * EmaW[n - 1] * (c - d[1].close)

\* groupby("date")["high"].max().shift(1) mapped on the date: the high / low of the
\* date that precedes this one among the dates of the table; None (NaN) for the first
SeedPrevDate == [m \in AllSeedLens |-> [dt \in 0..MaxDate |->
    MaxOver(LAMBDA i : DateOf(HistCandle(i).timestamp),
            LAMBDA i : DateOf(HistCandle(i).timestamp) < dt, 1, m)]]
SeedDayHigh == [m \in AllSeedLens |-> [dt \in 0..MaxDate |->
    MaxOver(LAMBDA i : HistCandle(i).high,
            LAMBDA i : DateOf(HistCandle(i).timestamp) = dt, 1, m)]]
SeedDayLow == [m \in AllSeedLens |-> [dt \in 0..MaxDate |->
    MinOver(LAMBDA i : HistCandle(i).low,
            LAMBDA i : DateOf(HistCandle(i).timestamp) = dt, 1, m)]]

PrevDateOf(d, k, date) ==
    OptMax(SeedPrevDate[k][date],
           MaxOver(LAMBDA i : DateOf(d[i].timestamp),
                   LAMBDA i : DateOf(d[i].timestamp) < date, k + 1, Len(d)))
DayHigh(d, k, date) ==
    OptMax(SeedDayHigh[k][date],
           MaxOver(LAMBDA i : d[i].high,
                   LAMBDA i : DateOf(d[i].timestamp) = date, k + 1, Len(d)))
DayLow(d, k, date) ==
    OptMin(SeedDayLow[k][date],
           MinOver(LAMBDA i : d[i].low,
                   LAMBDA i : DateOf(d[i].timestamp) = date, k + 1, Len(d)))

BatchPDH(d, k, date) ==
    LET p == PrevDateOf(d, k, date) IN IF p = None THEN None ELSE DayHigh(d, k, p[1])
BatchPDL(d, k, date) ==
    LET p == PrevDateOf(d, k, date) IN IF p = None THEN None ELSE DayLow(d, k, p[1])

\* can_trade = in_session & ~in_lunch
BatchCanTrade(ts, lunch) ==
    /\ CurTime(ts) >= trade_start
    /\ CurTime(ts) <= trade_end
    /\ ~(lunch /\ 1200 <= CurTime(ts) /\ CurTime(ts) <= 1330)

\* the conditions of the Long Entry and of the Short Entry, without the taken flag
BatchLongCond(d, k, i, lunch) ==
    /\ BatchCanTrade(d[i].timestamp, lunch)
    /\ VolOk(d, i)
    /\ VwapOk(d[i].close, CumCV(d, k, i), CumV(d, k, i))
    /\ BatchTrendSign(d, k, i, d[i].close) > 0
    /\ i > 1
    /\ LongBreak(BatchPDH(d, k, DateOf(d[i].timestamp)), d[i].close, d[i - 1].close)

BatchShortCond(d, k, i, lunch) ==
    /\ BatchCanTrade(d[i].timestamp, lunch)
    /\ VolOk(d, i)
    /\ VwapOk(d[i].close, CumCV(d, k, i), CumV(d, k, i))
    /\ BatchTrendSign(d, k, i, d[i].close) < 0
    /\ i > 1
    /\ ShortBreak(BatchPDL(d, k, DateOf(d[i].timestamp)), d[i].close, d[i - 1].close)

\* active_position is not None
BatchHasPosition(pos) == pos # NoPosition

\* (variant: the daily flag is not consulted)
SideAlwaysAllowed(taken) == TRUE

\* (not longTakenToday), (not shortTakenToday)
SideAllowed(taken) == ~taken

\* active_position = (row, sl, tp, side); None
BatchPosition(row, sl, tp, side) == [entry |-> row, sl |-> sl, tp |-> tp, side |-> side]

\* (variant: the record is stamped with the exit row at both ends)
TradeAtExitRow(pos, row, price, reason) ==
    [entry_time |-> row.timestamp, exit_time |-> row.timestamp,
     entry_price |-> pos.entry.close, exit_price |-> price,
     side |-> pos.side, reason |-> reason]

Trade(pos, row, price, reason) ==
    [entry_time |-> pos.entry.timestamp, exit_time |-> row.timestamp,
     entry_price |-> pos.entry.close, exit_price |-> price,
     side |-> pos.side, reason |-> reason]

\* the SL/TP block of the loop: the exit of the running trade on this row, if any
BatchExit(row, pos) ==
    IF pos.side = "LONG" /\ RLe(RInt(row.low), pos.sl) THEN Trade(pos, row, pos.sl, "SL Hit")
    ELSE IF pos.side = "LONG" /\ RLe(pos.tp, RInt(row.high)) THEN Trade(pos, row, pos.tp, "TP Hit")
    ELSE IF pos.side = "SHORT" /\ RLe(pos.sl, RInt(row.high)) THEN Trade(pos, row, pos.sl, "SL Hit")
    ELSE IF pos.side = "SHORT" /\ RLe(RInt(row.low), pos.tp) THEN Trade(pos, row, pos.tp, "TP Hit")
    ELSE None

LoopState(ltaken, staken, pos, tr) ==
    [longTakenToday |-> ltaken, shortTakenToday |-> staken, position |-> pos, trades |-> tr]

\* (variant: no candle is the square-off candle)
NeverSquareOffTime(ts) == FALSE

\* row.curTime == trade_end
IsSquareOffTime(ts) == CurTime(ts) = trade_end

\* One iteration of the execution loop, on row i of the table d
BatchRow(d, k, i, lunch) ==
    LET row == d[i]
        cur_date == DateOf(row.timestamp)
        newday == prev_date # None /\ Some(cur_date) # prev_date
        lt1 == IF newday THEN FALSE ELSE longTakenToday
        st1 == IF newday THEN FALSE ELSE shortTakenToday
        cv == CumCV(d, k, i)
        v == CumV(d, k, i)
    IN
    IF IsSquareOffTime(row.timestamp) /\ BatchHasPosition(bt_position)
    THEN LoopState(lt1, st1, NoPosition,
                   Append(trades, Trade(bt_position, row, RInt(row.close), "Forced Square-Off")))
    ELSE IF BatchHasPosition(bt_position)
    THEN LET ex == BatchExit(row, bt_position) IN
         IF ex # None THEN LoopState(lt1, st1, NoPosition, Append(trades, ex))
         ELSE LoopState(lt1, st1, bt_position, trades)
    ELSE IF BatchLongCond(d, k, i, lunch) /\ SideAllowed(lt1)
    THEN LET sl == LongSl(row, cv, v) IN
         IF RiskPositive("LONG", row.close, sl)
         THEN LoopState(TRUE, st1,
                        BatchPosition(row, sl, TakeProfit(row.close, sl), "LONG"), trades)
         ELSE LoopState(lt1, st1, NoPosition, trades)
    ELSE IF BatchShortCond(d, k, i, lunch) /\ SideAllowed(st1)
    THEN LET sl == ShortSl(row, cv, v) IN
         IF RiskPositive("SHORT", row.close, sl)
         THEN LoopState(lt1, TRUE,
                        BatchPosition(row, sl, TakeProfit(row.close, sl), "SHORT"), trades)
         ELSE LoopState(lt1, st1, NoPosition, trades)
    ELSE LoopState(lt1, st1, NoPosition, trades)

-----------------------------------------------------------------------------
(* The seeded history (_load_historical_data) and the tick feed             *)

\* get_previous_day_high_low at construction: the high and low of the day before
\* the wall-clock date, None when the store has no candle of that day
SeedLevels == {<<None, None>>, <<Some(15), Some(13)>>}

\* <<price, quantity>> of a tick
Quotes ==
    IF feed = "plain" THEN {<<8, 2>>, <<16, 1>>}
    ELSE {<<8, 2>>, <<16, 1>>, <<20, 1>>} \cup (IF feed = "heavy" THEN {<<16, 400>>} ELSE {})
\* whether a write to the candle store succeeds
WriteOutcomes == IF feed = "faulty" THEN BOOLEAN ELSE {TRUE}

\* the bucket the feed is at
FeedBucket == IF current_minute # None THEN current_minute[1] ELSE df[Len(df)].timestamp

\* ltt of the next tick: the last millisecond of the current bucket, the first of
\* the next one, 09:15:00.001 of the next day (but in the "plain" feed), in the
\* "regular" feed a late tick from inside the same bucket of the day before and, in
\* the "late" feed, 15:30:00.000 of the same day
TickTimes ==
    { (FeedBucket - IST_OFFSET_S) * 1000 + 299999,
      (FeedBucket + 300 - IST_OFFSET_S) * 1000 }
        \cup {t \in {((DateOf(FeedBucket) + 1) * 86400 + 33300 - IST_OFFSET_S) * 1000 + 1} :
                  feed # "plain"}
        \cup {t \in {(FeedBucket - 86400 - IST_OFFSET_S) * 1000 + 150500} :
                  feed = "regular" /\ DateOf(FeedBucket) > 0}
        \cup {t \in {(DateOf(FeedBucket) * 86400 + 55800 - IST_OFFSET_S) * 1000} :
                  feed = "late" /\ FeedBucket < DateOf(FeedBucket) * 86400 + 55800}

LiveInit ==
    /\ nseed \in HistLens
    /\ df = Hist(nseed)
    /\ current_minute = None
    /\ long_taken_today = FALSE
    /\ short_taken_today = FALSE
    /\ active_position = NoPosition
    /\ \E lv \in SeedLevels : pdh = lv[1] /\ pdl = lv[2]
    /\ today_date = None
    /\ result = NoSignal
    /\ signals = <<>>
    /\ saved = <<>>
    /\ nticks = 0
    /\ last_tick = None
    /\ bucket_ticks = <<>>
    /\ reset_dates = <<>>
    /\ save_errors = 0
    /\ vwap = None

\* no engine has been constructed
LiveIdle ==
    /\ nseed = 0
    /\ df = <<>>
    /\ current_minute = None
    /\ long_taken_today = FALSE
    /\ short_taken_today = FALSE
    /\ active_position = NoPosition
    /\ pdh = None
    /\ pdl = None
    /\ today_date = None
    /\ result = NoSignal
    /\ signals = <<>>
    /\ saved = <<>>
    /\ nticks = 0
    /\ last_tick = None
    /\ bucket_ticks = <<>>
    /\ reset_dates = <<>>
    /\ save_errors = 0
    /\ vwap = None

\* the state of compute_intraday_strategy when the execution loop starts
BatchLoopStart ==
    /\ bt_i = 0
    /\ longTakenToday = FALSE
    /\ shortTakenToday = FALSE
    /\ bt_position = NoPosition
    /\ prev_date = None
    /\ trades = <<>>
    /\ bt_cols = [vwap |-> None, pdh |-> None, pdl |-> None]

\* the default avoid_lunch=True; the "late" feed, which has the 12:00 rows, calls
\* with either value; the widened feeds start on VOL_LEN stored rows
BatchInit ==
    /\ bt_k \in (IF feed = "regular" THEN BatchSeedLens ELSE {VOL_LEN})
    /\ bt_df = Hist(bt_k)
    /\ avoid_lunch \in (IF feed = "late" THEN BOOLEAN ELSE {TRUE})
    /\ BatchLoopStart

\* compute_intraday_strategy has not been called
BatchIdle ==
    /\ bt_k = 0
    /\ bt_df = <<>>
    /\ avoid_lunch = TRUE
    /\ BatchLoopStart

\* LiveStrategyEngine.__init__ for a symbol the store has no candle of
EmptyEngine ==
    [df |-> <<>>, current_minute |-> None, long_taken_today |-> FALSE,
     short_taken_today |-> FALSE, active_position |-> NoPosition, pdh |-> None,
     pdl |-> None, today_date |-> None]

\* CandleDB._init_db on a new file, on a host in IST; no call yet
NoCall == [n |-> 0, kind |-> "none", args |-> <<>>, result |-> <<>>]
\* no engine is being constructed; the bot controller is not running
NoSeeding == [pc |-> "idle"]
NoBot == [pc |-> "idle"]
StoreIdle ==
    /\ db_rows = {}
    /\ db_op = NoCall
    /\ sys_tz = IST_OFFSET_S
    /\ seeding = NoSeeding
    /\ bot = NoBot

\* on_message has not been called
MsgIdle ==
    /\ other_ticks = 0
    /\ other_engine = EmptyEngine
    /\ nmsgs = 0
    /\ last_msg = <<>>

Init ==
    /\ feed = "regular"
    /\ MsgIdle
    /\ StoreIdle
    /\ \/ mode = "live" /\ LiveInit /\ BatchIdle
       \/ mode = "batch" /\ LiveIdle /\ BatchInit

\* a tick of the feed reaches on_message
Tick ==
    /\ mode \in {"live", "replay"}
    /\ bt_df = <<>>
    /\ \E ltt \in TickTimes, q \in Quotes, db_ok \in WriteOutcomes :
            update_candle(ltt, q[1], q[2], db_ok)
    /\ UNCHANGED <<batch_vars, mode, feed, msg_vars, store_vars>>

\* The rows a batch table may continue with: 5 minutes after the last row, 09:15 of
\* the next day, 15:25 of the same day when still ahead and, in the "late" feed, 12:00
\* of the same day when still ahead
BatchTimes(last) ==
    {last + 300, (DateOf(last) + 1) * 86400 + 33300}
        \cup {t \in {DateOf(last) * 86400 + 55500} : t > last}
        \cup {t \in {DateOf(last) * 86400 + 43200} : feed = "late" /\ t > last}

\* <<high, low, close, volume>>
Shapes ==
    IF feed = "heavy"
    THEN {<<16, 16, 16, 2>>, <<8, 8, 8, 1>>, <<20, 20, 20, 40>>, <<16, 16, 16, 5>>}
    ELSE {<<16, 16, 16, 2>>, <<12, 12, 12, 2>>, <<20, 8, 14, 1>>, <<8, 8, 8, 1>>}

NextRows(last) ==
    {Candle(t, sh[3], sh[1], sh[2], sh[3], sh[4]) : t \in BatchTimes(last), sh \in Shapes}

\* The execution loop takes the next row of the table.  The table is time-ordered and
\* no column of a row depends on a later row, so its rows past the stored ones are
\* drawn when the loop reaches them.
BatchStep ==
    /\ mode \in {"batch", "replay"}
    /\ \E row \in IF bt_i < Len(bt_df) THEN {bt_df[bt_i + 1]}
                  ELSE IF mode = "batch" /\ Len(bt_df) - bt_k < MaxRows
                  THEN NextRows(bt_df[Len(bt_df)].timestamp)
                  ELSE {} :
         LET d1 == IF bt_i < Len(bt_df) THEN bt_df ELSE Append(bt_df, row)
             out == BatchRow(d1, bt_k, bt_i + 1, avoid_lunch)
         IN  /\ bt_df' = d1
             /\ bt_i' = bt_i + 1
             /\ prev_date' = Some(DateOf(row.timestamp))
             /\ longTakenToday' = out.longTakenToday
             /\ shortTakenToday' = out.shortTakenToday
             /\ bt_position' = out.position
             /\ trades' = out.trades
             /\ bt_cols' = [vwap |-> Norm(CumCV(d1, bt_k, bt_i + 1), CumV(d1, bt_k, bt_i + 1)),
                            pdh |-> BatchPDH(d1, bt_k, DateOf(row.timestamp)),
                            pdl |-> BatchPDL(d1, bt_k, DateOf(row.timestamp))]
    /\ UNCHANGED <<bt_k, avoid_lunch, live_vars, mode, feed, msg_vars, store_vars>>

Next == Tick \/ BatchStep

Spec == Init /\ [][Next]_vars

-----------------------------------------------------------------------------
(* Replay: compute_intraday_strategy (default parameters) on the series the *)
(* live engine has materialized                                             *)

\* no stored row of the table meets an entry condition
SeedQuiet(d, k, lunch) ==
    {i \in 1..k : BatchLongCond(d, k, i, lunch) \/ BatchShortCond(d, k, i, lunch)} = {}

\* The batch driver is called on the engine's series and its loop runs through the
\* stored rows: none of them meets an entry condition (SeedQuiet), so the loop
\* reaches the first row made by a tick with no position, no trade and the flags down.
Replay ==
    /\ mode = "replay"
    /\ bt_df = <<>>
    /\ nticks > 0
    /\ SeedQuiet(df, nseed, avoid_lunch)
    /\ bt_df' = df
    /\ bt_k' = nseed
    /\ bt_i' = nseed
    /\ prev_date' = Some(DateOf(df[nseed].timestamp))
    /\ UNCHANGED <<avoid_lunch, longTakenToday, shortTakenToday, bt_position, trades,
                   bt_cols, live_vars, mode, feed, msg_vars, store_vars>>

ReplayInit == feed = "regular" /\ MsgIdle /\ StoreIdle /\ mode = "replay" /\ LiveInit /\ BatchIdle

ReplayNext == Tick \/ Replay \/ BatchStep

SpecReplay == ReplayInit /\ [][ReplayNext]_vars

-----------------------------------------------------------------------------
(* The same programs under wider inputs: one dimension of the feed is        *)
(* widened at a time, on an engine constructed on a full store              *)

\* the engine on a store of MIN_CANDLES rows that holds the previous day's levels
LiveInitFull == LiveInit /\ nseed = MIN_CANDLES /\ pdh # None

\* quantities of 400 per tick, batch rows of volume 40 and 5
HeavyInit ==
    /\ feed = "heavy"
    /\ MsgIdle
    /\ StoreIdle
    /\ \/ mode = "live" /\ LiveInitFull /\ BatchIdle
       \/ mode = "batch" /\ LiveIdle /\ BatchInit

SpecHeavy == HeavyInit /\ [][Next]_vars

\* ticks after the end of the trading window, batch rows at lunch time
LateInit ==
    /\ feed = "late"
    /\ MsgIdle
    /\ StoreIdle
    /\ \/ mode = "live" /\ LiveInitFull /\ BatchIdle
       \/ mode = "batch" /\ LiveIdle /\ BatchInit

SpecLate == LateInit /\ [][Next]_vars

\* writes to the candle store that may fail
FaultyInit == feed = "faulty" /\ MsgIdle /\ StoreIdle /\ mode = "live" /\ LiveInitFull /\ BatchIdle

SpecFaulty == FaultyInit /\ [][Tick]_vars

-----------------------------------------------------------------------------
(* main.py: on_message on messages of several feeds, some of them malformed *)

\* the keys a message may carry: the symbol of the engine modelled here, a second
\* symbol of engines, and a symbol that is not in engines
Keys == {"this", "other", "unknown"}

\* a feed as update_candle reads it: complete, or without one of the fields
\* tick["marketFF"]["ltpc"]["ltt"], ["ltp"], ["ltq"]
Forms == {"ok", "no_ltt", "no_ltp", "no_ltq"}

Feed(key, form) == [key |-> key, form |-> form]

\* msg["feeds"]: a dict, so its keys differ; its items come in insertion order
FeedLists ==
    {<<Feed(k, f)>> : k \in Keys, f \in Forms}
        \cup {<<Feed(k1, f1), Feed(k2, f2)>> : k1 \in Keys, k2 \in Keys,
                                               f1 \in Forms, f2 \in Forms}

Messages ==
    {[type |-> "live_feed", feeds |-> fs] :
        fs \in {x \in FeedLists :
                   /\ \A i \in 1..Len(x) : x[i].key = "unknown" => x[i].form = "ok"
                   /\ Len(x) = 2 => x[1].key # x[2].key}}
        \cup {[type |-> "market_info", feeds |-> <<>>]}

\* update_candle(feed) raises: the KeyError of the missing field (lines 137, 143, 144)
Raises(f) == f.key \in {"this", "other"} /\ f.form # "ok"

\* the position in the feeds at which the for loop of on_message ends by an
\* exception, Len + 1 when it runs to its end (nothing in on_message catches an
\* exception of update_candle)
LoopEnd(fs) ==
    IF \E i \in 1..Len(fs) : Raises(fs[i])
    THEN CHOOSE i \in 1..Len(fs) : Raises(fs[i]) /\ \A j \in 1..(i - 1) : ~Raises(fs[j])
    ELSE Len(fs) + 1

\* (variant: a feed of any tracked symbol is handed to every engine)
UpdatedByAny(fs, key) ==
    \E i \in 1..(LoopEnd(fs) - 1) : fs[i].key \in {"this", "other"}

\* the tick the feed of the second symbol carries: 09:15:00.001 of day 0, as
\* <<ltt, ltp, ltq>>
OtherFeedTicks == {<<(33300 - IST_OFFSET_S) * 1000 + 1, 12, 1>>}

\* update_candle of the engine of key has run to its end during the call
Updated(fs, key) == \E i \in 1..(LoopEnd(fs) - 1) : fs[i].key = key

on_message ==
    /\ mode = "live"
    /\ nmsgs < MaxMessages
    /\ \E msg \in Messages :
          /\ last_msg' = msg
          /\ nmsgs' = nmsgs + 1
          /\ IF msg.type # "live_feed"
             THEN UNCHANGED <<live_vars, other_ticks, other_engine>>
             ELSE /\ IF Updated(msg.feeds, "other")
                     THEN /\ other_ticks' = other_ticks + 1
                          /\ \E t \in OtherFeedTicks :
                                other_engine' = update_candle_short(other_engine, t[1], t[2], t[3])
                     ELSE UNCHANGED <<other_ticks, other_engine>>
                  /\ IF Updated(msg.feeds, "this")
                     THEN \E ltt \in TickTimes, q \in Quotes, db_ok \in WriteOutcomes :
                               update_candle(ltt, q[1], q[2], db_ok)
                     ELSE UNCHANGED live_vars
    /\ UNCHANGED <<batch_vars, mode, feed, store_vars>>

MessageInit == feed = "plain" /\ MsgIdle /\ StoreIdle /\ mode = "live" /\ LiveInitFull /\ BatchIdle

SpecMessage == MessageInit /\ [][on_message]_vars

-----------------------------------------------------------------------------
(* database_logic/candle_db.py: the table candles and the calls on it.  A    *)
(* date ("%Y-%m-%d", compared as text by SQLite) is the number of the day;   *)
(* a datetime is a naive timestamp in seconds.                              *)

Symbols == {"A", "B"}
Intervals == {"5m", "1m"}
\* 09:15 of day 1, 09:20 of day 1, 09:15 of day 2
StoreTimes == {86400 + 33300, 86400 + 33600, 2 * 86400 + 33300}
Bodies == {[open |-> 14, high |-> 15, low |-> 13, close |-> 14, volume |-> 1],
           [open |-> 16, high |-> 16, low |-> 16, close |-> 16, volume |-> 2]}

DbRow(symbol, timestamp, date, interval, body) ==
    [symbol |-> symbol, timestamp |-> timestamp, date |-> date, interval |-> interval,
     open |-> body.open, high |-> body.high, low |-> body.low, close |-> body.close,
     volume |-> body.volume]

\* PRIMARY KEY (symbol, timestamp, interval)
Key(r) == <<r.symbol, r.timestamp, r.interval>>

\* (variant: INSERT without OR REPLACE on a table without the primary key)
InsertPlain(rows, r) == rows \cup {r}

\* INSERT OR REPLACE INTO candles: the row that holds the key of r, if any, is deleted
\* and r is inserted
InsertOrReplace(rows, r) == {x \in rows : Key(x) # Key(r)} \cup {r}

\* int(ts.timestamp()) of a naive datetime: the epoch second at which the clock of
\* the host shows ts
ToEpoch(ts) == ts - sys_tz

\* datetime.fromtimestamp(ts): the naive datetime the clock of the host shows at ts
FromEpoch(ts) == ts + sys_tz

\* insert_candle(symbol, timestamp, open_price, high, low, close, volume, interval)
InsertCandleRow(symbol, timestamp, body, interval) ==
    DbRow(symbol, ToEpoch(timestamp), DateOf(timestamp), interval, body)

\* one tuple of data in insert_candles_batch; candle.timestamp is a datetime or an
\* epoch integer, candle.interval may be absent (None)
BatchRowOf(candle) ==
    DbRow(candle.symbol,
          IF candle.is_datetime THEN ToEpoch(candle.timestamp) ELSE candle.timestamp,
          IF candle.is_datetime THEN DateOf(candle.timestamp)
          ELSE DateOf(FromEpoch(candle.timestamp)),
          IF candle.interval = None THEN "1m" ELSE candle.interval[1],
          candle.body)

\* executemany: the tuples are inserted in the order of the list
RECURSIVE InsertAll(_, _)
InsertAll(rows, data) ==
    IF data = <<>> THEN rows
    ELSE InsertAll(InsertOrReplace(rows, Head(data)), Tail(data))

\* (variant: the end date is not part of the range)
InDateRangeHalfOpen(date, start_date, end_date) ==
    /\ start_date # None => date >= start_date[1]
    /\ end_date # None => date < end_date[1]

\* AND date >= ? (if start_date)  AND date <= ? (if end_date)
InDateRange(date, start_date, end_date) ==
    /\ start_date # None => date >= start_date[1]
    /\ end_date # None => date <= end_date[1]

\* ORDER BY timestamp ASC over rows of one symbol and interval, whose timestamps differ
OrderByTimestamp(rows) ==
    [i \in 1..Cardinality(rows) |->
        CHOOSE r \in rows : Cardinality({x \in rows : x.timestamp < r.timestamp}) = i - 1]

\* the frame get_candles returns: the selected columns, the timestamp read as UTC,
\* moved by 5:30 and made naive
get_candles_result(symbol, start_date, end_date, interval) ==
    LET sel == {r \in db_rows : /\ r.symbol = symbol
                                /\ r.interval = interval
                                /\ InDateRange(r.date, start_date, end_date)}
        ord == OrderByTimestamp(sel)
    IN  [i \in 1..Len(ord) |->
            Candle(ord[i].timestamp + IST_OFFSET_S, ord[i].open, ord[i].high, ord[i].low,
                   ord[i].close, ord[i].volume)]

\* insert_candle as its caller (_save_completed_candle) calls it: interval='5m'
insert_candle ==
    /\ mode = "store"
    /\ db_op.n < MaxStoreOps
    /\ \E symbol \in Symbols, timestamp \in StoreTimes, body \in Bodies,
          interval \in {"5m"} :
          /\ db_rows' = InsertOrReplace(db_rows,
                                        InsertCandleRow(symbol, timestamp, body, interval))
          /\ db_op' = [n |-> db_op.n + 1, kind |-> "insert_candle",
                       args |-> [symbol |-> symbol, timestamp |-> timestamp,
                                 body |-> body, interval |-> interval],
                       result |-> <<>>]
    /\ UNCHANGED <<sys_tz, seeding, bot, live_vars, batch_vars, mode, feed, msg_vars>>

\* the lists insert_candles_batch is called with: two candles of one symbol, as the
\* fetcher builds them (datetime, interval "1m": 09:15 and 09:20 of day 1) or with an
\* epoch integer and no interval (09:15 of day 1, other values)
BatchCandles ==
    {[symbol |-> "A", timestamp |-> t, is_datetime |-> TRUE, interval |-> Some("1m"),
      body |-> b] : t \in {86400 + 33300, 86400 + 33600}, b \in {x \in Bodies : x.volume = 1}}
        \cup {[symbol |-> "A", timestamp |-> t - sys_tz, is_datetime |-> FALSE,
               interval |-> None, body |-> b] : t \in {86400 + 33300},
                                                b \in {x \in Bodies : x.volume = 2}}
BatchLists == {<<c1, c2>> : c1 \in BatchCandles, c2 \in BatchCandles}

insert_candles_batch ==
    /\ mode = "store"
    /\ db_op.n < MaxStoreOps
    /\ \E candles \in BatchLists :
          /\ db_rows' = InsertAll(db_rows, [i \in 1..Len(candles) |-> BatchRowOf(candles[i])])
          /\ db_op' = [n |-> db_op.n + 1, kind |-> "insert_candles_batch",
                       args |-> candles, result |-> <<>>]
    /\ UNCHANGED <<sys_tz, seeding, bot, live_vars, batch_vars, mode, feed, msg_vars>>

\* the dates get_candles is called with: none, or a day
QueryDates == {None, Some(1), Some(2)}

get_candles ==
    /\ mode = "store"
    /\ db_op.n < MaxStoreOps
    /\ \E symbol \in Symbols, start_date \in QueryDates, end_date \in QueryDates,
          interval \in Intervals :
          db_op' = [n |-> db_op.n + 1, kind |-> "get_candles",
                    args |-> [symbol |-> symbol, start_date |-> start_date,
                              end_date |-> end_date, interval |-> interval],
                    result |-> get_candles_result(symbol, start_date, end_date, interval)]
    /\ UNCHANGED <<db_rows, sys_tz, seeding, bot, live_vars, batch_vars, mode, feed, msg_vars>>

\* a new database file, on a host in UTC or in IST
StoreInit ==
    /\ mode = "store"
    /\ feed = "regular"
    /\ db_rows = {}
    /\ db_op = NoCall
    /\ sys_tz \in {0, IST_OFFSET_S}
    /\ seeding = NoSeeding
    /\ bot = NoBot
    /\ MsgIdle
    /\ LiveIdle
    /\ BatchIdle

StoreNext == insert_candle \/ insert_candles_batch \/ get_candles

SpecStore == StoreInit /\ [][StoreNext]_vars

-----------------------------------------------------------------------------
(* LiveStrategyEngine._load_historical_data and                             *)
(* database_logic/fetch_historical_candles.py: the seeding of an engine at  *)
(* its construction.  Days are numbered from date.min (day 0); today is day *)
(* MaxDayOffset, so that today - timedelta(days = day_offset) is a date for *)
(* day_offset <= MaxDayOffset and raises OverflowError past it.             *)

Today == MaxDayOffset

\* os.getenv("INTERVAL", "5m")
EnvInterval(env) == IF env = None THEN "5m" ELSE env[1]

\* target_date.weekday() of today - timedelta(days = day_offset); 0 is Monday
WeekdayOf(today_weekday, day_offset) == (today_weekday + 7 * MaxDayOffset - day_offset) % 7

\* what _fetch_single_day and _fetch_today return for a day: [] (a status other
\* than 200, a body without candles, any exception) or the candles of the day as
\* dicts with the naive IST datetime and 'interval': '1m' (here the 09:15 candle)
FetchedCandles(day) ==
    {<<>>} \cup
    {<< [timestamp |-> day * 86400 + 33300, is_datetime |-> TRUE, interval |-> Some("1m"),
         body |-> [open |-> 14, high |-> 15, low |-> 13, close |-> 14, volume |-> 1]] >>}

\* for candle in all_candles: candle['symbol'] = symbol
WithSymbol(candles, symbol) ==
    [i \in 1..Len(candles) |->
        [symbol |-> symbol, timestamp |-> candles[i].timestamp,
         is_datetime |-> candles[i].is_datetime, interval |-> candles[i].interval,
         body |-> candles[i].body]]

\* cleanup_old_candles(days_to_keep): DELETE FROM candles WHERE date < cutoff_date
cleanup_old_candles(rows, days_to_keep) == {r \in rows : r.date >= Today - days_to_keep}

\* get_previous_day_high_low(symbol, current_date, interval): <<pdh, pdl>>
get_previous_day_high_low(rows, symbol, current_date, interval) ==
    LET sel == {r \in rows : r.symbol = symbol /\ r.date = current_date - 1
                             /\ r.interval = interval}
    IN  IF sel = {} THEN <<None, None>>
        ELSE <<Some(CHOOSE h \in {r.high : r \in sel} : \A r \in sel : r.high <= h),
               Some(CHOOSE l \in {r.low : r \in sel} : \A r \in sel : r.low >= l)>>

\* _load_historical_data up to the call of the fetcher: the stored range is read and
\* logged, old rows are deleted, and without an instrument key the method returns
load_historical_data ==
    /\ mode = "seed"
    /\ seeding.pc = "start"
    /\ db_rows' = cleanup_old_candles(db_rows, STOCK_DAYS_NEED)
    /\ seeding' = [seeding EXCEPT !.pc = IF seeding.instrument_key = None THEN "done"
                                         ELSE "loop"]
    /\ UNCHANGED <<db_op, sys_tz, bot, live_vars, batch_vars, mode, feed, msg_vars>>

\* fetch_and_store_candles: one iteration of the loop while trading_days_found < days
fetch_single_day ==
    /\ mode = "seed"
    /\ seeding.pc = "loop"
    /\ IF seeding.day_offset > MaxDayOffset
       THEN \* today - timedelta(days=day_offset): OverflowError, which nothing catches
            seeding' = [seeding EXCEPT !.pc = "raised"]
       ELSE LET target_date == Today - seeding.day_offset IN
            IF WeekdayOf(seeding.today_weekday, seeding.day_offset) >= 5
            THEN seeding' = [seeding EXCEPT !.day_offset = @ + 1]
            ELSE \E candles \in FetchedCandles(target_date) :
                    LET found == seeding.trading_days_found
                                     + (IF candles # <<>> THEN 1 ELSE 0)
                    IN  seeding' = [seeding EXCEPT
                            !.day_offset = @ + 1,
                            !.all_candles = @ \o candles,
                            !.trading_days_found = found,
                            !.pc = IF found < STOCK_DAYS_NEED THEN "loop" ELSE "today"]
    /\ UNCHANGED <<db_rows, db_op, sys_tz, bot, live_vars, batch_vars, mode, feed, msg_vars>>

\* fetch_and_store_candles after the loop: today's candles are fetched and the whole
\* list is stored under the symbol cut from the instrument key
fetch_today_and_store ==
    /\ mode = "seed"
    /\ seeding.pc = "today"
    /\ \E candles \in FetchedCandles(Today) :
          LET all == WithSymbol(seeding.all_candles \o candles, seeding.instrument_key[1])
          IN  /\ db_rows' = InsertAll(db_rows, [i \in 1..Len(all) |-> BatchRowOf(all[i])])
              /\ seeding' = [seeding EXCEPT !.all_candles = all, !.pc = "reload"]
    /\ UNCHANGED <<db_op, sys_tz, bot, live_vars, batch_vars, mode, feed, msg_vars>>

\* _load_historical_data after the fetch: the reload from the store
reload_from_db ==
    /\ mode = "seed"
    /\ seeding.pc = "reload"
    /\ LET interval == EnvInterval(seeding.INTERVAL)
           loaded == get_candles_result(seeding.symbol, None, None, interval)
           levels == get_previous_day_high_low(db_rows, seeding.symbol, Today, interval)
       IN  seeding' = [seeding EXCEPT
               !.df = loaded,
               !.pdh = IF loaded # <<>> THEN levels[1] ELSE None,
               !.pdl = IF loaded # <<>> THEN levels[2] ELSE None,
               !.pc = "done"]
    /\ UNCHANGED <<db_rows, db_op, sys_tz, bot, live_vars, batch_vars, mode, feed, msg_vars>>

\* LiveStrategyEngine(symbol, instrument_key) as main.py constructs it (the symbol is
\* the part of the key after "|") or without a key, on a store that is new or holds
\* a 5-minute candle of yesterday written by an earlier run
SeedInit ==
    /\ mode = "seed"
    /\ feed = "regular"
    /\ \E key \in {None, Some("A")}, env \in {None, Some("1m"), Some("5m")}, wd \in 0..6 :
          seeding = [pc |-> "start", symbol |-> "A", instrument_key |-> key,
                     INTERVAL |-> env, today_weekday |-> wd, day_offset |-> 1,
                     trading_days_found |-> 0, all_candles |-> <<>>,
                     df |-> <<>>, pdh |-> None, pdl |-> None]
    /\ sys_tz \in {0, IST_OFFSET_S}
    /\ db_rows \in {{}, {DbRow("A", (Today - 1) * 86400 + 33300 - sys_tz, Today - 1, "5m",
                               [open |-> 14, high |-> 15, low |-> 13, close |-> 14,
                                volume |-> 1])}}
    /\ db_op = NoCall
    /\ bot = NoBot
    /\ MsgIdle
    /\ LiveIdle
    /\ BatchIdle

SeedNext == load_historical_data \/ fetch_single_day \/ fetch_today_and_store \/ reload_from_db

\* every step of the construction that can be taken is taken in the end
SpecSeed == SeedInit /\ [][SeedNext]_vars /\ WF_vars(SeedNext)

-----------------------------------------------------------------------------
(* telegram_bot/bot_controller.py and telegram_bot/telegram_bot.py.  The     *)
(* record bot holds the globals trading_process and trading_status, the     *)
(* list AUTHORIZED_USERS of config.py, the number of trading subprocesses   *)
(* that are alive, the minute of the last run of check_trading_hours, and   *)
(* what the last handler did.                                               *)

Users == {"1", "2"}

\* the minutes at which check_trading_hours runs (every 60 s) that differ in what
\* it does, as HHMM: before the open, the open, two minutes inside the session,
\* the minute before the close, the close, after the close
ClockTimes == <<900, 915, 916, 1200, 1524, 1525, 1526>>

\* bot_controller.is_authorized
is_authorized(authorized, user_id) ==
    IF authorized = {} THEN FALSE ELSE user_id \in authorized

\* telegram_bot.is_authorized
is_authorized_telegram_bot(authorized, user_id) ==
    IF authorized = {} THEN TRUE ELSE user_id \in authorized

Did(handler, user, data, call, acted, success) ==
    [handler |-> handler, user |-> user, data |-> data, call |-> call,
     acted |-> acted, success |-> success]

\* TradingBotController.start_trading; popen_ok tells whether subprocess.Popen
\* returns a process or raises
start_trading(b, popen_ok) ==
    IF b.trading_status = "running" THEN [bot |-> b, success |-> FALSE]
    ELSE IF popen_ok
    THEN [bot |-> [b EXCEPT !.trading_process = Some("Popen"),
                            !.trading_status = "running",
                            !.nlive = @ + 1],
          success |-> TRUE]
    ELSE [bot |-> b, success |-> FALSE]

\* TradingBotController.stop_trading: terminate and wait(timeout=5), or kill when
\* the wait times out; either way the process is gone and the handle dropped
stop_trading(b, wait_ok) ==
    IF b.trading_status = "stopped" THEN [bot |-> b, success |-> FALSE]
    ELSE [bot |-> [b EXCEPT !.trading_process = None,
                            !.trading_status = "stopped",
                            !.nlive = IF b.trading_process # None THEN 0 ELSE @],
          success |-> TRUE]

\* button_handler of bot_controller.py for the buttons start_bot, stop_bot, status
button_handler ==
    /\ mode = "bot"
    /\ bot.AUTHORIZED_USERS # {}
    /\ \E user \in Users, data \in {"start_bot", "stop_bot", "status"},
          popen_ok \in BOOLEAN, wait_ok \in BOOLEAN :
          IF ~is_authorized(bot.AUTHORIZED_USERS, user)
          THEN bot' = [bot EXCEPT !.last = Did("button_handler", user, data, "none",
                                               FALSE, FALSE)]
          ELSE IF data = "start_bot"
          THEN LET r == start_trading(bot, popen_ok) IN
               bot' = [r.bot EXCEPT !.last = Did("button_handler", user, data,
                                                 "start_trading", TRUE, r.success)]
          ELSE IF data = "stop_bot"
          THEN LET r == stop_trading(bot, wait_ok) IN
               bot' = [r.bot EXCEPT !.last = Did("button_handler", user, data,
                                                 "stop_trading", TRUE, r.success)]
          ELSE bot' = [bot EXCEPT !.last = Did("button_handler", user, data,
                                               "get_status", TRUE, TRUE)]
    /\ UNCHANGED <<db_rows, db_op, sys_tz, seeding, live_vars, batch_vars, mode, feed, msg_vars>>

\* the commands of bot_controller.py that answer after the same test: start, menu,
\* status, refresh_token, and the text handlers add_stock_handler, handle_auth_code
controller_command ==
    /\ mode = "bot"
    /\ bot.AUTHORIZED_USERS # {}
    /\ \E user \in Users, cmd \in {"status", "refresh_token", "add_stock"} :
          bot' = [bot EXCEPT !.last = Did("controller_command", user, cmd, "none",
                                          is_authorized(bot.AUTHORIZED_USERS, user), TRUE)]
    /\ UNCHANGED <<db_rows, db_op, sys_tz, seeding, live_vars, batch_vars, mode, feed, msg_vars>>

\* the commands of telegram_bot.py: start, status, symbols, positions, stats, help
telegram_command ==
    /\ mode = "bot"
    /\ \E user \in Users, cmd \in {"status", "positions", "stats"} :
          bot' = [bot EXCEPT !.last = Did("telegram_command", user, cmd, "none",
                                          is_authorized_telegram_bot(bot.AUTHORIZED_USERS, user),
                                          TRUE)]
    /\ UNCHANGED <<db_rows, db_op, sys_tz, seeding, live_vars, batch_vars, mode, feed, msg_vars>>

\* check_trading_hours at the next minute of ClockTimes
check_trading_hours ==
    /\ mode = "bot"
    /\ bot.AUTHORIZED_USERS # {}
    /\ bot.clock < Len(ClockTimes)
    /\ \E popen_ok \in BOOLEAN, wait_ok \in BOOLEAN :
          LET current_time == ClockTimes[bot.clock + 1]
              is_trading_hours == TRADE_START_TIME <= current_time
                                      /\ current_time <= TRADE_END_TIME
              b == [bot EXCEPT !.clock = @ + 1]
          IN  IF current_time = TRADE_START_TIME /\ bot.trading_status = "stopped"
              THEN LET r == start_trading(b, popen_ok) IN
                   bot' = [r.bot EXCEPT !.last = Did("check_trading_hours", "", "",
                                                     "start_trading", TRUE, r.success)]
              ELSE IF current_time = TRADE_END_TIME /\ bot.trading_status = "running"
              THEN LET r == stop_trading(b, wait_ok) IN
                   bot' = [r.bot EXCEPT !.last = Did("check_trading_hours", "", "",
                                                     "stop_trading", TRUE, r.success)]
              ELSE IF ~is_trading_hours /\ bot.trading_status = "running"
              THEN LET r == stop_trading(b, wait_ok) IN
                   bot' = [r.bot EXCEPT !.last = Did("check_trading_hours", "", "",
                                                     "stop_trading", TRUE, r.success)]
              ELSE bot' = [b EXCEPT !.last = Did("check_trading_hours", "", "", "none",
                                                 TRUE, TRUE)]
    /\ UNCHANGED <<db_rows, db_op, sys_tz, seeding, live_vars, batch_vars, mode, feed, msg_vars>>

\* the trading subprocess ends by itself: main.py exits when SYMBOLS is not set or
\* holds no valid key, or dies of an exception
process_exit ==
    /\ mode = "bot"
    /\ bot.nlive > 0
    /\ bot' = [bot EXCEPT !.nlive = @ - 1,
                          !.last = Did("process_exit", "", "", "none", FALSE, FALSE)]
    /\ UNCHANGED <<db_rows, db_op, sys_tz, seeding, live_vars, batch_vars, mode, feed, msg_vars>>

\* the bots come up, at some minute of the day, with the list of config.py empty or
\* holding user "1"
BotInit ==
    /\ mode = "bot"
    /\ feed = "regular"
    /\ \E authorized \in {{}, {"1"}}, clock \in 0..(Len(ClockTimes) - 1) :
          bot = [pc |-> "up", AUTHORIZED_USERS |-> authorized, trading_process |-> None,
                 trading_status |-> "stopped", nlive |-> 0, clock |-> clock,
                 last |-> Did("main", "", "", "none", FALSE, FALSE)]
    /\ db_rows = {}
    /\ db_op = NoCall
    /\ sys_tz = IST_OFFSET_S
    /\ seeding = NoSeeding
    /\ MsgIdle
    /\ LiveIdle
    /\ BatchIdle

BotNext ==
    button_handler \/ controller_command \/ telegram_command \/ check_trading_hours
        \/ process_exit

\* the job queue runs check_trading_hours every minute
SpecBot == BotInit /\ [][BotNext]_vars /\ WF_vars(check_trading_hours)

-----------------------------------------------------------------------------
(* Properties *)

Last(s) == s[Len(s)]

\* update_candle has run in this step; the batch loop has taken a row in this step
Ticked == nticks' = nticks + 1
BatchStepped == bt_i' = bt_i + 1

IsEntry(res) == res.signal \in {"BUY", "SELL"}
SideOf(res) == IF res.signal = "BUY" THEN "LONG" ELSE "SHORT"

\* the levels of the position pos touched by the candle row
SlTouched(row, pos) ==
    IF pos.side = "LONG" THEN RLe(RInt(row.low), pos.sl) ELSE RLe(pos.sl, RInt(row.high))
TpTouched(row, pos) ==
    IF pos.side = "LONG" THEN RLe(pos.tp, RInt(row.high)) ELSE RLe(RInt(row.low), pos.tp)
BothTouched(row, pos) == SlTouched(row, pos) /\ TpTouched(row, pos)

\* the entries the engine has signalled, and those the batch loop has made (closed
\* trades, then the open position), as <<side, time of the entry candle>>
LiveEntries ==
    LET idx == {i \in 1..Len(signals) : IsEntry(signals[i].sig)}
        pos(i) == Cardinality({j \in idx : j <= i})
    IN  [n \in 1..Cardinality(idx) |->
            LET i == CHOOSE i \in idx : pos(i) = n
            IN  <<SideOf(signals[i].sig), signals[i].timestamp>>]
BatchEntries ==
    [i \in 1..Len(trades) |-> <<trades[i].side, trades[i].entry_time>>]
        \o (IF bt_position # NoPosition
            THEN << <<bt_position.side, bt_position.entry.timestamp>> >> ELSE <<>>)

\* no two entries of es are of the same side on the same calendar date
OncePerSidePerDay(es) ==
    \A i, j \in 1..Len(es) :
        i < j /\ es[i][1] = es[j][1] => DateOf(es[i][2]) # DateOf(es[j][2])

\* side has an entry in es on the date of ts
TakenOn(es, side, ts) ==
    \E i \in 1..Len(es) : es[i][1] = side /\ DateOf(es[i][2]) = DateOf(ts)

\* C1: in the live engine and in the batch driver the position changes only by being
\* created from "no position" by an accepted entry (BUY gives LONG, SELL gives SHORT)
\* or by being deleted by an exit, and an entry is signalled only while no position
\* is open.
SinglePosition ==
    [][ /\ (active_position' # active_position =>
               \/ /\ active_position = NoPosition
                  /\ IsEntry(result')
                  /\ active_position'.side = SideOf(result')
               \/ /\ active_position # NoPosition
                  /\ active_position' = NoPosition
                  /\ result'.signal = "EXIT")
        /\ (Ticked /\ IsEntry(result') =>
               active_position = NoPosition /\ active_position' # NoPosition)
        /\ (bt_position' # bt_position =>
               \/ /\ bt_position = NoPosition
                  /\ bt_position' # NoPosition
                  /\ trades' = trades
               \/ /\ bt_position # NoPosition
                  /\ bt_position' = NoPosition
                  /\ Len(trades') = Len(trades) + 1
                  /\ SubSeq(trades', 1, Len(trades)) = trades
                  /\ Last(trades').entry_time = bt_position.entry.timestamp
                  /\ Last(trades').side = bt_position.side)
      ]_vars

\* the engine has opened a position and closed it again
SinglePositionWitness ==
    /\ Len(signals) = 2
    /\ signals[1].sig.signal = "BUY"
    /\ signals[2].sig.signal = "EXIT"
    /\ active_position = NoPosition

\* C2: when the batch driver has run over the series materialized by the live engine,
\* both have made the same decisions in the same order: every entry on the same
\* candle with the same side and entry price (and, while the position is still open,
\* the same stop and target), every exit on the same candle for the same reason at
\* the same price.
LiveDecisions ==
    [i \in 1..Len(signals) |->
        LET g == signals[i] IN
        IF IsEntry(g.sig)
        THEN [kind |-> "ENTRY", time |-> g.timestamp, side |-> SideOf(g.sig),
              price |-> RInt(g.sig.entry_price)]
        ELSE [kind |-> "EXIT", time |-> g.timestamp,
              reason |-> IF g.sig.reason = "SL HIT" THEN "STOP_LOSS" ELSE "TAKE_PROFIT",
              price |-> g.sig.exit_price]]

RECURSIVE BatchDecisionsOf(_)
BatchDecisionsOf(tr) ==
    IF tr = <<>> THEN <<>>
    ELSE BatchDecisionsOf(SubSeq(tr, 1, Len(tr) - 1)) \o
         << [kind |-> "ENTRY", time |-> Last(tr).entry_time, side |-> Last(tr).side,
             price |-> RInt(Last(tr).entry_price)],
            [kind |-> "EXIT", time |-> Last(tr).exit_time,
             reason |-> IF Last(tr).reason = "SL Hit" THEN "STOP_LOSS"
                        ELSE IF Last(tr).reason = "TP Hit" THEN "TAKE_PROFIT"
                        ELSE "FORCED_SQUARE_OFF",
             price |-> Last(tr).exit_price] >>

BatchDecisions ==
    BatchDecisionsOf(trades) \o
        (IF bt_position # NoPosition
         THEN << [kind |-> "ENTRY", time |-> bt_position.entry.timestamp,
                  side |-> bt_position.side, price |-> RInt(bt_position.entry.close)] >>
         ELSE <<>>)

ReplayDone == mode = "replay" /\ bt_df = df /\ df # <<>> /\ bt_i = Len(bt_df)

ReplayEquivalence ==
    ReplayDone =>
        /\ LiveDecisions = BatchDecisions
        /\ (active_position # NoPosition \/ bt_position # NoPosition =>
               /\ active_position # NoPosition
               /\ bt_position # NoPosition
               /\ active_position.sl = bt_position.sl
               /\ active_position.tp = bt_position.tp)

\* C3: in the live engine a signalled BUY (SELL) leaves long_taken_today
\* (short_taken_today) set, and no two BUY (SELL) signals are for candles of the
\* same calendar date.
LiveOncePerSidePerDay ==
    /\ (result.signal = "BUY" => long_taken_today)
    /\ (result.signal = "SELL" => short_taken_today)
    /\ OncePerSidePerDay(LiveEntries)

\* C4: in the batch driver no two trades of the same side (the open position
\* included) are entered on the same calendar date, and while the loop is on the date
\* of an entry the flag of that entry's side is set.
BatchOncePerSidePerDay ==
    /\ OncePerSidePerDay(BatchEntries)
    /\ \A i \in 1..Len(BatchEntries) :
          prev_date = Some(DateOf(BatchEntries[i][2])) =>
              IF BatchEntries[i][1] = "LONG" THEN longTakenToday ELSE shortTakenToday

\* the loop is on a row that meets the whole long entry condition, with no position
\* open, and enters nothing because a long trade was already taken that day
BatchOncePerSidePerDayWitness ==
    /\ mode = "batch"
    /\ bt_i = Len(bt_df)
    /\ bt_i > bt_k
    /\ bt_position = NoPosition
    /\ longTakenToday
    /\ Len(trades) = 1
    /\ trades[1].side = "LONG"
    /\ DateOf(trades[1].entry_time) = DateOf(bt_df[bt_i].timestamp)
    /\ trades[1].exit_time < bt_df[bt_i].timestamp
    /\ BatchLongCond(bt_df, bt_k, bt_i, avoid_lunch)
    /\ RLt(LongSl(bt_df[bt_i], CumCV(bt_df, bt_k, bt_i), CumV(bt_df, bt_k, bt_i)),
           RInt(bt_df[bt_i].close))

\* C5 (as stated): whenever the candle handed to the exit check touches both the stop
\* and the target of the open position, the exit is reported as stop-loss, in the
\* live engine and in the batch driver.
StopBeforeTarget ==
    [][ /\ (Ticked /\ active_position # NoPosition
                /\ BothTouched(Last(df'), active_position) =>
               result'.signal = "EXIT" /\ result'.reason = "SL HIT")
        /\ (BatchStepped /\ bt_position # NoPosition
                /\ BothTouched(bt_df'[bt_i'], bt_position) =>
               /\ Len(trades') = Len(trades) + 1
               /\ Last(trades').reason = "SL Hit")
      ]_vars

\* C5 (amended): whenever the candle touches both the stop and the target of the
\* open position, the exit is never reported as take-profit: it is reported as
\* stop-loss at the stop, except that the batch driver, on the candle of trade_end,
\* squares the position off at the close before looking at either level.
StopBeforeTargetButSquareOff ==
    [][ /\ (Ticked /\ active_position # NoPosition
                /\ BothTouched(Last(df'), active_position) =>
               /\ result'.signal = "EXIT"
               /\ result'.reason = "SL HIT"
               /\ result'.exit_price = active_position.sl)
        /\ (BatchStepped /\ bt_position # NoPosition
                /\ BothTouched(bt_df'[bt_i'], bt_position) =>
               /\ Len(trades') = Len(trades) + 1
               /\ IF CurTime(bt_df'[bt_i'].timestamp) = trade_end
                  THEN /\ Last(trades').reason = "Forced Square-Off"
                       /\ Last(trades').exit_price = RInt(bt_df'[bt_i'].close)
                  ELSE /\ Last(trades').reason = "SL Hit"
                       /\ Last(trades').exit_price = bt_position.sl)
      ]_vars

\* the last tick closed a long position whose candle spans both its stop and its
\* target, and the exit was reported as stop-loss
StopBeforeTargetWitness ==
    /\ Len(signals) >= 2
    /\ result = Last(signals).sig
    /\ result.signal = "EXIT"
    /\ result.reason = "SL HIT"
    /\ signals[Len(signals) - 1].sig.signal = "BUY"
    /\ RLe(RInt(Last(df).low), signals[Len(signals) - 1].sig.sl)
    /\ RLe(signals[Len(signals) - 1].sig.tp, RInt(Last(df).high))

\* C6: an exit by stop-loss or take-profit is priced exactly at the stored level of
\* the position, its reason names the level the candle touched, the position is
\* gone afterwards, and the update emits nothing but that exit (no entry on the
\* same candle update).
ExitAtStoredLevel ==
    [][ /\ (Ticked /\ result'.signal = "EXIT" =>
               /\ active_position # NoPosition
               /\ active_position' = NoPosition
               /\ signals' = Append(signals, [sig |-> result',
                                              timestamp |-> Last(df').timestamp])
               /\ \/ /\ result'.reason = "SL HIT"
                     /\ result'.exit_price = active_position.sl
                     /\ SlTouched(Last(df'), active_position)
                  \/ /\ result'.reason = "TP HIT"
                     /\ result'.exit_price = active_position.tp
                     /\ TpTouched(Last(df'), active_position))
        /\ (BatchStepped /\ trades' # trades
                /\ Last(trades').reason \in {"SL Hit", "TP Hit"} =>
               /\ bt_position # NoPosition
               /\ bt_position' = NoPosition
               /\ \/ /\ Last(trades').reason = "SL Hit"
                     /\ Last(trades').exit_price = bt_position.sl
                     /\ SlTouched(bt_df'[bt_i'], bt_position)
                  \/ /\ Last(trades').reason = "TP Hit"
                     /\ Last(trades').exit_price = bt_position.tp
                     /\ TpTouched(bt_df'[bt_i'], bt_position))
      ]_vars

\* the last tick closed a position at its target, above the entry price and not at
\* the candle's high
ExitAtStoredLevelWitness ==
    /\ Len(signals) >= 2
    /\ result = Last(signals).sig
    /\ result.signal = "EXIT"
    /\ result.reason = "TP HIT"
    /\ signals[Len(signals) - 1].sig.signal = "BUY"
    /\ result.exit_price = signals[Len(signals) - 1].sig.tp
    /\ result.exit_price # RInt(Last(df).high)
    /\ active_position = NoPosition

\* C7: on a tick whose evaluated candle has a date other than today_date, today_date
\* becomes that date, neither daily flag is left set unless this very update enters
\* that side, and previous_day_high / previous_day_low become the highest high /
\* lowest low of the rows of the series dated strictly before that date.
DailyReset ==
    [][ Ticked /\ Len(df') >= MIN_CANDLES
            /\ today_date # Some(DateOf(Last(df').timestamp)) =>
          LET cur == DateOf(Last(df').timestamp)
              before == {i \in 1..Len(df') : DateOf(df'[i].timestamp) < cur}
          IN  /\ today_date' = Some(cur)
              /\ (long_taken_today' => result'.signal = "BUY")
              /\ (short_taken_today' => result'.signal = "SELL")
              /\ (before # {} =>
                     /\ pdh' # None
                     /\ pdl' # None
                     /\ \E i \in before : df'[i].high = pdh'[1]
                     /\ \A i \in before : df'[i].high <= pdh'[1]
                     /\ \E i \in before : df'[i].low = pdl'[1]
                     /\ \A i \in before : df'[i].low >= pdl'[1])
      ]_vars

\* C8: a tick whose bucket is earlier than current_minute changes neither the series
\* nor current_minute, and after every tick the timestamps of the series are strictly
\* increasing.
StaleTickRejected ==
    [][ Ticked =>
          /\ (current_minute # None /\ BucketOf(last_tick'[1]) < current_minute[1] =>
                 df' = df /\ current_minute' = current_minute)
          /\ \A i \in 1..(Len(df') - 1) : df'[i].timestamp < df'[i + 1].timestamp
      ]_vars

EntryPreconditions ==
    [][ /\ (Ticked /\ IsEntry(result') =>
               LET d == df'
                   n == Len(d)
                   row == d[n]
               IN  /\ n >= 2
                   /\ LiveCanTrade(row.timestamp)
                   /\ VolOk(d, n)
                   /\ VwapOk(row.close, CumCV(d, nseed, n), CumV(d, nseed, n))
                   /\ ~TakenOn(LiveEntries, SideOf(result'), row.timestamp)
                   /\ IF result'.signal = "BUY"
                      THEN /\ LiveTrendSign(d, nseed, n, row.close) > 0
                           /\ LongBreak(pdh', row.close, d[n - 1].close)
                      ELSE /\ LiveTrendSign(d, nseed, n, row.close) < 0
                           /\ ShortBreak(pdl', row.close, d[n - 1].close))
        /\ (Ticked /\ ~IsEntry(result') /\ active_position = NoPosition =>
               active_position' = NoPosition)
        /\ (BatchStepped /\ bt_position = NoPosition /\ bt_position' # NoPosition =>
               /\ ~TakenOn(BatchEntries, bt_position'.side, bt_df'[bt_i'].timestamp)
               /\ IF bt_position'.side = "LONG"
                  THEN BatchLongCond(bt_df', bt_k, bt_i', avoid_lunch)
                  ELSE BatchShortCond(bt_df', bt_k, bt_i', avoid_lunch))
      ]_vars

\* close * volume and volume summed over the whole series d
TotalCV(d) == SumOver(LAMBDA i : d[i].close * d[i].volume, 1, Len(d))
TotalV(d) == SumOver(LAMBDA i : d[i].volume, 1, Len(d))

\* the stop of an entry of side on the candle row, VWAP being cv / v: for LONG the
\* lesser of VWAP * (1 - 0.08/100) and the low, for SHORT the greater of
\* VWAP * (1 + 0.08/100) and the high
PrescribedSl(side, row, cv, v) ==
    LET band == IF side = "LONG" THEN Norm(cv * 9992, v * 10000)
                ELSE Norm(cv * 10008, v * 10000)
        edge == IF side = "LONG" THEN row.low ELSE row.high
        bandFirst == band[1] <= edge * band[2]
    IN  IF (side = "LONG") = bandFirst THEN band ELSE RInt(edge)

\* close + (close - sl) * 1.6, which is also close - (sl - close) * 1.6
PrescribedTp(close, sl) ==
    Norm(10 * close * sl[2] + 16 * (close * sl[2] - sl[1]), 10 * sl[2])

\* sl < entry < tp for LONG, tp < entry < sl for SHORT
LevelsOrdered(side, entry, sl, tp) ==
    IF side = "LONG"
    THEN sl[1] < entry * sl[2] /\ entry * tp[2] < tp[1]
    ELSE tp[1] < entry * tp[2] /\ entry * sl[2] < sl[1]

\* C11: every position created, by the live engine or by the batch driver, is entered
\* at the close of its candle, with the stop min(VWAP * (1 - 0.08/100), low) for LONG
\* and max(VWAP * (1 + 0.08/100), high) for SHORT, and the target
\* close + (close - stop) * 1.6; and its levels are ordered stop < entry < target for
\* LONG, target < entry < stop for SHORT.  The entry signal carries the same values.
PositionLevels ==
    [][ /\ (Ticked /\ IsEntry(result') =>
               LET row == Last(df')
                   side == SideOf(result')
                   sl == PrescribedSl(side, row, TotalCV(df'), TotalV(df'))
                   tp == PrescribedTp(row.close, sl)
               IN  /\ active_position' = [side |-> side, entry |-> row.close,
                                          sl |-> sl, tp |-> tp]
                   /\ result'.entry_price = row.close
                   /\ result'.sl = sl
                   /\ result'.tp = tp
                   /\ LevelsOrdered(side, row.close, sl, tp))
        /\ (BatchStepped /\ bt_position = NoPosition /\ bt_position' # NoPosition =>
               LET row == bt_df'[bt_i']
                   side == bt_position'.side
                   sl == PrescribedSl(side, row, TotalCV(SubSeq(bt_df', 1, bt_i')),
                                      TotalV(SubSeq(bt_df', 1, bt_i')))
                   tp == PrescribedTp(row.close, sl)
               IN  /\ side \in {"LONG", "SHORT"}
                   /\ bt_position' = [entry |-> row, sl |-> sl, tp |-> tp, side |-> side]
                   /\ LevelsOrdered(side, row.close, sl, tp))
        /\ (BatchStepped /\ Len(trades') > Len(trades) =>
               Last(trades').entry_price = bt_position.entry.close)
      ]_vars

\* the engine holds a long position whose stop comes from the VWAP band, not from the
\* low of the entry candle
PositionLevelsWitness ==
    /\ result.signal = "BUY"
    /\ active_position # NoPosition
    /\ active_position.side = "LONG"
    /\ active_position.entry = Last(df).close
    /\ active_position.sl # RInt(Last(df).low)

\* the risk of an entry of side at close with the stop sl is zero or negative
NonPositiveRisk(side, close, sl) ==
    IF side = "LONG" THEN sl[1] >= close * sl[2] ELSE sl[1] <= close * sl[2]

\* the side whose entry conditions the candle n of the series d meets, None if neither
LiveSideMet(d, k, n, h, l) ==
    IF LiveLongCond(d, k, n, CumCV(d, k, n), CumV(d, k, n), h) THEN Some("LONG")
    ELSE IF LiveShortCond(d, k, n, CumCV(d, k, n), CumV(d, k, n), l) THEN Some("SHORT")
    ELSE None
BatchSideMet(d, k, i, lunch) ==
    IF BatchLongCond(d, k, i, lunch) THEN Some("LONG")
    ELSE IF BatchShortCond(d, k, i, lunch) THEN Some("SHORT")
    ELSE None

ForcedSquareOff ==
    [][ BatchStepped /\ bt_position # NoPosition
           /\ HourOf(bt_df'[bt_i'].timestamp) = 15 /\ MinuteOf(bt_df'[bt_i'].timestamp) = 25
        => LET row == bt_df'[bt_i'] IN
           /\ trades' = Append(trades,
                  [entry_time |-> bt_position.entry.timestamp, exit_time |-> row.timestamp,
                   entry_price |-> bt_position.entry.close, exit_price |-> RInt(row.close),
                   side |-> bt_position.side, reason |-> "Forced Square-Off"])
           /\ bt_position' = NoPosition
           /\ (longTakenToday' => longTakenToday)
           /\ (shortTakenToday' => shortTakenToday)
      ]_vars

\* the last trade was squared off on a 15:25 candle that reached both the stop and the
\* target of the position, at the close of that candle
ForcedSquareOffWitness ==
    /\ trades # <<>>
    /\ bt_i > 0
    /\ Last(trades).reason = "Forced Square-Off"
    /\ Last(trades).exit_time = bt_df[bt_i].timestamp
    /\ Last(trades).exit_price = RInt(bt_df[bt_i].close)
    /\ bt_df[bt_i].low < Last(trades).exit_price[1]
    /\ bt_df[bt_i].high > Last(trades).exit_price[1]
    /\ bt_df[bt_i].low <= 13
    /\ bt_df[bt_i].high >= 20
    /\ bt_position = NoPosition

\* the local time of day of ts as HHMM; the trading window and the lunch window
HHMM(ts) == ((ts % 86400) \div 3600) * 100 + ((ts % 3600) \div 60)
InWindow(ts) == 915 <= HHMM(ts) /\ HHMM(ts) <= 1525
InLunch(ts) == 1200 <= HHMM(ts) /\ HHMM(ts) <= 1330

\* C14: no entry is made on a candle whose time of day is outside 09:15..15:25
\* (inclusive), in the live engine and in the batch driver; with avoid_lunch the batch
\* driver makes no entry on a candle of 12:00..13:30 (inclusive) either; and a
\* position whose stop or target is touched by a candle is closed on it whatever the
\* time of day of the candle.
TradingWindow ==
    [][ /\ (Ticked /\ IsEntry(result') => InWindow(Last(df').timestamp))
        /\ (Ticked /\ active_position = NoPosition /\ ~InWindow(Last(df').timestamp) /\ df' # df
               => active_position' = NoPosition)
        /\ (BatchStepped /\ bt_position = NoPosition /\ bt_position' # NoPosition =>
               /\ InWindow(bt_df'[bt_i'].timestamp)
               /\ ~(avoid_lunch /\ InLunch(bt_df'[bt_i'].timestamp)))
        /\ (Ticked /\ active_position # NoPosition /\ df' # df
                /\ (SlTouched(Last(df'), active_position) \/ TpTouched(Last(df'), active_position))
               => active_position' = NoPosition /\ result'.signal = "EXIT")
        /\ (BatchStepped /\ bt_position # NoPosition
                /\ (SlTouched(bt_df'[bt_i'], bt_position) \/ TpTouched(bt_df'[bt_i'], bt_position))
               => bt_position' = NoPosition /\ Len(trades') = Len(trades) + 1)
      ]_vars

\* the engine has evaluated a 15:30 candle that meets every condition of a long entry
\* but the time of day, and holds no position
TradingWindowWitness ==
    /\ mode = "live"
    /\ nticks > 0
    /\ Len(df) >= MIN_CANDLES
    /\ HHMM(Last(df).timestamp) = 1530
    /\ VolOk(df, Len(df))
    /\ VwapOk(Last(df).close, CumCV(df, nseed, Len(df)), CumV(df, nseed, Len(df)))
    /\ LiveTrendSign(df, nseed, Len(df), Last(df).close) > 0
    /\ LongBreak(pdh, Last(df).close, df[Len(df) - 1].close)
    /\ RiskPositive("LONG", Last(df).close,
                    LongSl(Last(df), CumCV(df, nseed, Len(df)), CumV(df, nseed, Len(df))))
    /\ result = NoSignal
    /\ active_position = NoPosition

\* C15: on a candle that has fewer than 20 candles up to and including itself the
\* volume average is undefined and the volume confirmation is false: no entry is made
\* on it, by the live engine or by the batch driver, whatever its volume.
VolumeAverageUndefined ==
    [][ /\ (Ticked /\ IsEntry(result') => Len(df') >= 20)
        /\ (Ticked /\ active_position = NoPosition /\ Len(df') < 20 =>
               active_position' = NoPosition /\ result' = NoSignal)
        /\ (BatchStepped /\ bt_position = NoPosition /\ bt_i' < 20 =>
               /\ bt_position' = NoPosition
               /\ trades' = trades
               /\ (longTakenToday' => longTakenToday)
               /\ (shortTakenToday' => shortTakenToday))
      ]_vars

\* the batch loop has passed its 19th row, a candle with volume that meets every
\* other condition of a long entry, and holds no position
VolumeAverageUndefinedWitness ==
    /\ mode = "batch"
    /\ bt_i = 19
    /\ bt_df[bt_i].volume > 0
    /\ InWindow(bt_df[bt_i].timestamp)
    /\ ~(avoid_lunch /\ InLunch(bt_df[bt_i].timestamp))
    /\ VwapOk(bt_df[bt_i].close, CumCV(bt_df, bt_k, bt_i), CumV(bt_df, bt_k, bt_i))
    /\ BatchTrendSign(bt_df, bt_k, bt_i, bt_df[bt_i].close) > 0
    /\ LongBreak(BatchPDH(bt_df, bt_k, DateOf(bt_df[bt_i].timestamp)),
                 bt_df[bt_i].close, bt_df[bt_i - 1].close)
    /\ RiskPositive("LONG", bt_df[bt_i].close,
                    LongSl(bt_df[bt_i], CumCV(bt_df, bt_k, bt_i), CumV(bt_df, bt_k, bt_i)))
    /\ ~longTakenToday
    /\ bt_position = NoPosition
    /\ trades = <<>>

\* C16: while the series holds fewer than 210 candles after a tick, the tick is still
\* aggregated into the series (a candle of a new bucket appended, or the last candle
\* updated with the tick's price), but no signal is emitted and today_date, the daily
\* flags, previous_day_high / low and active_position keep their values.
WarmUp ==
    [][ Ticked /\ Len(df') < 210 =>
           /\ result' = NoSignal
           /\ signals' = signals
           /\ UNCHANGED <<today_date, long_taken_today, short_taken_today, pdh, pdl,
                          active_position>>
           /\ df' # df
           /\ Len(df') \in {Len(df), Len(df) + 1}
           /\ Last(df').close = last_tick'[2]
           /\ Last(df').timestamp = BucketOf(last_tick'[1])
      ]_vars

\* the engine, on a series of 209 candles, has taken a tick whose candle breaks above
\* previous_day_high on volume, and has neither set today_date nor signalled
WarmUpWitness ==
    /\ mode = "live"
    /\ nticks > 0
    /\ Len(df) = 209
    /\ Len(df) > nseed
    /\ VolOk(df, Len(df))
    /\ LongBreak(pdh, Last(df).close, df[Len(df) - 1].close)
    /\ today_date = None
    /\ result = NoSignal
    /\ active_position = NoPosition

\* C17: the live engine changes today_date (clearing the daily flags and recomputing
\* previous_day_high / low) at most once per calendar date, and a tick whose candle
\* is of the date today_date leaves today_date, the flags and the levels as they are.
ResetOncePerDate ==
    [][ Ticked =>
           /\ (today_date' # today_date =>
                  /\ today_date' = Some(DateOf(Last(df').timestamp))
                  /\ \A i \in 1..Len(reset_dates) : reset_dates[i] # today_date'[1])
           /\ (today_date = Some(DateOf(Last(df').timestamp)) =>
                  UNCHANGED <<today_date, long_taken_today, short_taken_today, pdh, pdl>>)
      ]_vars

\* C18: under tick processing the series only grows at its end: a tick never removes
\* or reorders a candle and changes at most the last candle, and a tick of a bucket
\* other than the current one changes no candle at all, so a candle is immutable once
\* a tick of a different bucket has been taken; the length never decreases.
AppendOnly ==
    [][ Ticked =>
           /\ Len(df') >= Len(df)
           /\ SubSeq(df', 1, Len(df) - 1) = SubSeq(df, 1, Len(df) - 1)
           /\ (current_minute # Some((((last_tick'[1] \div 1000) + 19800) \div 300) * 300)
                  => SubSeq(df', 1, Len(df)) = df)
           /\ (Len(df') = Len(df) => df'[Len(df)].timestamp = df[Len(df)].timestamp)
      ]_vars

\* three ticks, the last two of one bucket: the stored candles and the candle of the
\* first tick are as they were, and the candle of the later bucket has been updated
AppendOnlyWitness ==
    /\ nticks = 3
    /\ Len(df) = nseed + 2
    /\ SubSeq(df, 1, nseed) = Hist(nseed)
    /\ df[nseed + 1].volume \in {1, 2}
    /\ df[nseed + 1].high = df[nseed + 1].low
    /\ Len(bucket_ticks) = 2
    /\ bucket_ticks[1][1] # bucket_ticks[2][1]
    /\ Last(df).high # Last(df).low

\* C20: a failing write of a finalized candle is logged and goes no further: every
\* tick is aggregated and evaluated whatever the outcome of the write.  On a tick of a
\* new bucket the finalized candle is either written, or an error is logged and the
\* store is left as it was; in both cases the finalized candle stays in the series,
\* the candle of the tick is appended after it, and the signal and the position are
\* those process_strategy gives on that series.
WriteFailureSwallowed ==
    [][ Ticked =>
          LET price == last_tick'[2]
              qty == last_tick'[3]
              bucket == (((last_tick'[1] \div 1000) + 19800) \div 300) * 300
              out == process_strategy(df', nseed)
          IN  /\ current_minute' = Some(bucket)
              /\ current_minute # Some(bucket) =>
                    df' = Append(df, Candle(bucket, price, price, price, price, qty))
              /\ current_minute # Some(bucket) /\ current_minute # None =>
                    \/ saved' = Append(saved, Last(df)) /\ save_errors' = save_errors
                    \/ saved' = saved /\ save_errors' = save_errors + 1
              /\ current_minute = Some(bucket) \/ current_minute = None =>
                    saved' = saved /\ save_errors' = save_errors
              /\ result' = out.result
              /\ active_position' = out.active_position
              /\ today_date' = out.today_date
              /\ pdh' = out.pdh /\ pdl' = out.pdl
      ]_vars

\* the only write so far has failed, on the tick that finalized the candle of the
\* first tick; both candles are in the series and that tick has signalled an entry
WriteFailureSwallowedWitness ==
    /\ nticks = 2
    /\ save_errors = 1
    /\ saved = <<>>
    /\ Len(df) = nseed + 2
    /\ df[nseed + 1].close = 16
    /\ Last(df).close = last_tick[2]
    /\ result.signal = "SELL"
    /\ active_position # NoPosition

\* the feed of key in the message m is complete; the message has a feed of key that
\* lacks a field
WellFormedFeed(m, key) ==
    m.type = "live_feed" /\ \E i \in 1..Len(m.feeds) : m.feeds[i] = [key |-> key, form |-> "ok"]
MalformedFeed(m, key) ==
    m.type = "live_feed"
        /\ \E i \in 1..Len(m.feeds) : m.feeds[i].key = key /\ m.feeds[i].form # "ok"

\* C19: a malformed tick (one without ltt, ltp or ltq) is dropped alone: it leaves the
\* state of its engine as it was, and every complete feed of a message is handed to
\* its engine and processed, whether or not another feed of the same message, or an
\* earlier tick of the same symbol, was malformed.
MalformedTickIsolated ==
    [][ nmsgs' = nmsgs + 1 =>
           /\ (MalformedFeed(last_msg', "this") =>
                  UNCHANGED <<df, current_minute, long_taken_today, short_taken_today,
                              active_position, pdh, pdl, today_date, signals, saved,
                              nticks, bucket_ticks>>)
           /\ (MalformedFeed(last_msg', "other") => other_ticks' = other_ticks)
           /\ (WellFormedFeed(last_msg', "this") => nticks' = nticks + 1 /\ df' # df)
           /\ (WellFormedFeed(last_msg', "other") => other_ticks' = other_ticks + 1)
      ]_vars

\* the message m carries a feed under key
HasFeed(m, key) == \E i \in 1..Len(m.feeds) : m.feeds[i].key = key

\* C21: on_message hands each feed to the engine registered under its key only: a
\* message without a feed of a symbol changes no field (series, current bucket,
\* today_date, daily flags, previous_day_high / low, position) of that symbol's
\* engine, whatever it carries for the other symbol, and a message whose feeds are all
\* of untracked keys changes no engine; the engine a tick is for takes the tick.
SymbolIsolation ==
    [][ nmsgs' = nmsgs + 1 =>
           /\ (~HasFeed(last_msg', "this") =>
                  UNCHANGED <<df, current_minute, long_taken_today, short_taken_today,
                              active_position, pdh, pdl, today_date, nticks>>)
           /\ (~HasFeed(last_msg', "other") =>
                  UNCHANGED <<other_engine, other_ticks>>)
           /\ (other_ticks' # other_ticks =>
                  /\ Len(other_engine'.df) \in {Len(other_engine.df), Len(other_engine.df) + 1}
                  /\ other_engine'.df # other_engine.df
                  /\ other_engine'.current_minute = Some(Last(other_engine'.df).timestamp))
           /\ (nticks' # nticks =>
                  /\ df' # df
                  /\ current_minute' = Some(Last(df').timestamp)
                  /\ Last(df').close = last_tick'[2])
      ]_vars

\* two messages, the first with a tick of this symbol and the second with one of the
\* other symbol and nothing of this one: each engine holds one candle made by its own tick
SymbolIsolationWitness ==
    /\ nmsgs = 2
    /\ nticks = 1
    /\ other_ticks = 1
    /\ ~HasFeed(last_msg, "this")
    /\ HasFeed(last_msg, "other")
    /\ Len(df) = nseed + 1
    /\ Last(df).close = last_tick[2]
    /\ Len(other_engine.df) = 1
    /\ other_engine.current_minute # None

\* no two entries of es on candles of the same open time are of different sides
OneSidePerCandle(es) ==
    \A i, j \in 1..Len(es) : i < j /\ es[i][2] = es[j][2] => es[i][1] = es[j][1]

\* C22: no candle yields both a LONG entry and a SHORT entry: among the entries the
\* live engine has signalled (over all the ticks of a bucket) and among those the
\* batch loop has made, two entries on the same candle are of the same side.
OneSidePerCandleBoth ==
    OneSidePerCandle(LiveEntries) /\ OneSidePerCandle(BatchEntries)

\* no candle of the series d is of a date before date
NoEarlierDate(d, date) == \A i \in 1..Len(d) : DateOf(d[i].timestamp) >= date

\* C23: when the live engine detects a date change and the series holds no candle of
\* a date before the new one, previous_day_high and previous_day_low are undefined
\* afterwards and the tick enters nothing; and on a row of the first date of a batch
\* table the previous-day levels are undefined and nothing is entered.
NoPreviousDay ==
    [][ /\ (Ticked /\ today_date' # today_date
                /\ NoEarlierDate(df', DateOf(Last(df').timestamp))
               => pdh' = None /\ pdl' = None /\ ~IsEntry(result'))
        /\ (BatchStepped /\ NoEarlierDate(bt_df', DateOf(bt_df'[bt_i'].timestamp))
               => /\ bt_cols'.pdh = None /\ bt_cols'.pdl = None
                  /\ (bt_position = NoPosition => bt_position' = NoPosition))
      ]_vars

\* C24: the VWAP of a candle is the sum of close * volume over all the candles of the
\* series from its first one up to that candle, divided by the sum of their volumes,
\* whatever the dates of the candles: at every evaluation of the live engine and on
\* every row of the batch loop.
CumulativeVwap ==
    /\ (vwap # None => vwap[1][1] * TotalV(df) = vwap[1][2] * TotalCV(df))
    /\ (bt_i > 0 =>
           LET d == SubSeq(bt_df, 1, bt_i) IN
           bt_cols.vwap[1] * TotalV(d) = bt_cols.vwap[2] * TotalCV(d))

\* close * volume and volume summed over the candles of d that are of the date of its
\* last candle
TodayCV(d) ==
    SumOver(LAMBDA i : IF DateOf(d[i].timestamp) = DateOf(Last(d).timestamp)
                       THEN d[i].close * d[i].volume ELSE 0, 1, Len(d))
TodayV(d) ==
    SumOver(LAMBDA i : IF DateOf(d[i].timestamp) = DateOf(Last(d).timestamp)
                       THEN d[i].volume ELSE 0, 1, Len(d))

\* the batch loop is on a row of the second date of its table, and the VWAP of the row
\* differs from the one counted from the first row of that date
CumulativeVwapWitness ==
    /\ bt_i > bt_k
    /\ DateOf(bt_df[bt_i].timestamp) > DateOf(bt_df[1].timestamp)
    /\ LET d == SubSeq(bt_df, 1, bt_i) IN
       /\ bt_cols.vwap[1] * TotalV(d) = bt_cols.vwap[2] * TotalCV(d)
       /\ bt_cols.vwap[1] * TodayV(d) # bt_cols.vwap[2] * TodayCV(d)

\* C25: a date change resets the daily flags only: a position that is open when the
\* first candle of a new date is processed stays open with the same side, entry price,
\* stop and target, unless that candle touches its stop or its target (or, in the
\* batch driver, is the square-off candle), in which case it is closed and nothing is
\* entered on that candle.
RolloverKeepsPosition ==
    [][ /\ (Ticked /\ active_position # NoPosition /\ today_date' # today_date =>
               IF SlTouched(Last(df'), active_position) \/ TpTouched(Last(df'), active_position)
               THEN active_position' = NoPosition
               ELSE active_position' = active_position)
        /\ (BatchStepped /\ bt_position # NoPosition
                /\ prev_date # None /\ prev_date # Some(DateOf(bt_df'[bt_i'].timestamp)) =>
               IF \/ SlTouched(bt_df'[bt_i'], bt_position)
                  \/ TpTouched(bt_df'[bt_i'], bt_position)
                  \/ HHMM(bt_df'[bt_i'].timestamp) = 1525
               THEN bt_position' = NoPosition
               ELSE bt_position' = bt_position /\ trades' = trades)
      ]_vars

\* the batch loop has processed the first candle of a new date and still holds the
\* long position it entered on the date before, the long flag of the new date down
RolloverKeepsPositionWitness ==
    /\ bt_i > bt_k + 1
    /\ bt_position # NoPosition
    /\ bt_position.side = "LONG"
    /\ DateOf(bt_position.entry.timestamp) < DateOf(bt_df[bt_i].timestamp)
    /\ DateOf(bt_df[bt_i - 1].timestamp) < DateOf(bt_df[bt_i].timestamp)
    /\ ~longTakenToday
    /\ bt_position.sl[1] < bt_position.entry.close * bt_position.sl[2]

\* the rows of the table t that hold the key <<symbol, timestamp, interval>>
RowsOfKey(t, k) == {r \in t : <<r.symbol, r.timestamp, r.interval>> = k}

\* the key and the values the i-th candle of a list handed to insert_candles_batch
\* is stored under
BatchKey(c) ==
    <<c.symbol, IF c.is_datetime THEN c.timestamp - sys_tz ELSE c.timestamp,
      IF c.interval = None THEN "1m" ELSE c.interval[1]>>

\* the row r holds the values of body
HoldsBody(r, body) ==
    /\ r.open = body.open /\ r.high = body.high /\ r.low = body.low
    /\ r.close = body.close /\ r.volume = body.volume

\* C26: a write is idempotent on (symbol, timestamp, interval): after insert_candle,
\* and after insert_candles_batch for each candle of its list, the table holds exactly
\* one row of the key written, with the values of the last write of that key, whatever
\* it held under that key before; the rows of all other keys are as before; and no
\* call leaves two rows of one key.
WriteIdempotent ==
    [][ db_op'.n = db_op.n + 1 =>
           /\ \A r1, r2 \in db_rows' :
                 <<r1.symbol, r1.timestamp, r1.interval>> = <<r2.symbol, r2.timestamp, r2.interval>>
                    => r1 = r2
           /\ (db_op'.kind = "insert_candle" =>
                  LET a == db_op'.args
                      k == <<a.symbol, a.timestamp - sys_tz, a.interval>>
                  IN  /\ Cardinality(RowsOfKey(db_rows', k)) = 1
                      /\ \A r \in RowsOfKey(db_rows', k) : HoldsBody(r, a.body)
                      /\ db_rows' \ RowsOfKey(db_rows', k) = db_rows \ RowsOfKey(db_rows, k))
           /\ (db_op'.kind = "insert_candles_batch" =>
                  LET cs == db_op'.args
                      ks == {BatchKey(cs[i]) : i \in 1..Len(cs)}
                      lastOf(k) == CHOOSE i \in 1..Len(cs) :
                                      /\ BatchKey(cs[i]) = k
                                      /\ \A j \in (i + 1)..Len(cs) : BatchKey(cs[j]) # k
                  IN  /\ \A k \in ks :
                            /\ Cardinality(RowsOfKey(db_rows', k)) = 1
                            /\ \A r \in RowsOfKey(db_rows', k) : HoldsBody(r, cs[lastOf(k)].body)
                      /\ {r \in db_rows' : <<r.symbol, r.timestamp, r.interval>> \notin ks}
                            = {r \in db_rows : <<r.symbol, r.timestamp, r.interval>> \notin ks})
           /\ (db_op'.kind = "get_candles" => db_rows' = db_rows)
      ]_vars

\* the last call wrote one key twice, as a datetime and as an epoch integer, with
\* different values, and the table holds the second ones, next to a row of another key
WriteIdempotentWitness ==
    /\ db_op.kind = "insert_candles_batch"
    /\ db_op.n >= 2
    /\ BatchKey(db_op.args[1]) = BatchKey(db_op.args[2])
    /\ db_op.args[1].is_datetime # db_op.args[2].is_datetime
    /\ db_op.args[1].body # db_op.args[2].body
    /\ Cardinality(RowsOfKey(db_rows, BatchKey(db_op.args[2]))) = 1
    /\ \A r \in RowsOfKey(db_rows, BatchKey(db_op.args[2])) : HoldsBody(r, db_op.args[2].body)
    /\ Cardinality(db_rows) >= 2

\* the stored rows get_candles(symbol, start_date, end_date, interval) is about: those
\* of the symbol and the interval whose date is in [start_date, end_date], an absent
\* bound not bounding
AskedRows(a) ==
    {r \in db_rows : /\ r.symbol = a.symbol
                     /\ r.interval = a.interval
                     /\ (a.start_date = None \/ r.date >= a.start_date[1])
                     /\ (a.end_date = None \/ r.date <= a.end_date[1])}

\* C27: get_candles(symbol, start_date, end_date, interval) returns exactly the stored
\* candles of the symbol and the interval whose date is in [start_date, end_date]
\* inclusive, each once, with their values, by ascending timestamp, and nothing else.
RangeRead ==
    [][ db_op'.n = db_op.n + 1 /\ db_op'.kind = "get_candles" =>
           LET res == db_op'.result
               asked == AskedRows(db_op'.args)
           IN  /\ Len(res) = Cardinality(asked)
               /\ \A i \in 1..Len(res) :
                     \E r \in asked :
                        /\ res[i].timestamp = r.timestamp + 19800
                        /\ res[i].open = r.open /\ res[i].high = r.high
                        /\ res[i].low = r.low /\ res[i].close = r.close
                        /\ res[i].volume = r.volume
               /\ \A i \in 1..(Len(res) - 1) : res[i].timestamp < res[i + 1].timestamp
      ]_vars

\* a read bounded on both sides has returned the two candles of day 1 of the symbol
\* and interval asked for, and the table holds a third row, which it has not returned
RangeReadWitness ==
    /\ db_op.kind = "get_candles"
    /\ db_op.args.start_date = Some(1)
    /\ db_op.args.end_date = Some(1)
    /\ Len(db_op.result) = 2
    /\ db_op.result[1].timestamp < db_op.result[2].timestamp
    /\ Cardinality(db_rows) = 3

\* the greatest high and the least low among the candles of d of a date before date,
\* None if there is none
EarlierHigh(d, date) ==
    MaxOver(LAMBDA i : d[i].high, LAMBDA i : DateOf(d[i].timestamp) < date, 1, Len(d))
EarlierLow(d, date) ==
    MinOver(LAMBDA i : d[i].low, LAMBDA i : DateOf(d[i].timestamp) < date, 1, Len(d))

\* C28: in the batch driver the previous-day high / low of a candle are the greatest
\* high / the least low over all the candles of the table of a date strictly before
\* the date of the candle, the levels the live engine derives from the same candles.
BatchLevelsOverEarlierDates ==
    [][ BatchStepped =>
           /\ bt_cols'.pdh = EarlierHigh(bt_df', DateOf(bt_df'[bt_i'].timestamp))
           /\ bt_cols'.pdl = EarlierLow(bt_df', DateOf(bt_df'[bt_i'].timestamp))
      ]_vars

\* C29: the batch driver opens no position on a candle that has fewer than 210
\* candles up to and including itself in the table.
BatchWarmUp ==
    [][ BatchStepped /\ bt_position = NoPosition /\ bt_i' < 210 =>
           bt_position' = NoPosition ]_vars

ClosedTickCandles == SubSeq(df, nseed + 1, Len(df) - 1)

\* C31: the candles handed to _save_completed_candle are, in order and once each,
\* the candles opened by ticks that a tick of another bucket has closed, with the
\* values they have in the series; a tick that opens a candle hands over exactly
\* the candle that was last before it, a tick of the current bucket hands over
\* nothing, and the open candle is never handed over.
FinalizationHandOff ==
    [][ Ticked =>
           /\ saved' = SubSeq(df', nseed' + 1, Len(df') - 1)
           /\ IF Len(df') > Len(df) /\ current_minute # None
              THEN saved' = Append(saved, df[Len(df)])
              ELSE saved' = saved
      ]_vars

FinalizationHandOffWitness ==
    /\ mode = "live"
    /\ saved # <<>>
    /\ saved[1].high > saved[1].low
    /\ Len(df) = nseed + 2
    /\ saved = ClosedTickCandles

\* the live engine exits on a candle that opened after the candle of its last entry
LiveExitOnLaterCandle ==
    [][ Ticked /\ result'.signal = "EXIT" =>
           Last(df').timestamp > signals[Len(signals)].timestamp ]_vars

\* a trade the batch loop closes ends on a row later than the row of its entry
BatchExitOnLaterCandle ==
    [][ BatchStepped /\ Len(trades') > Len(trades) =>
           Last(trades').exit_time > Last(trades').entry_time ]_vars

\* C32: a position is never exited by the candle on which it was entered: an EXIT of
\* the live engine comes on a candle with a later open time than the candle of the
\* entry, whatever ticks of the entry's bucket follow, and a trade of the batch
\* driver is closed on a later row than the one it was opened on.
NoExitOnEntryCandle == LiveExitOnLaterCandle /\ BatchExitOnLaterCandle

\* the signals alternate entry and EXIT from an entry on, and an EXIT is priced at
\* the sl or the tp of the entry before it
Alternates(ss) ==
    \A i \in 1..Len(ss) :
        IF i % 2 = 1
        THEN ss[i].sig.signal \in {"BUY", "SELL"}
        ELSE /\ ss[i].sig.signal = "EXIT"
             /\ ss[i].sig.exit_price \in {ss[i - 1].sig.sl, ss[i - 1].sig.tp}

\* C33: the signals update_candle returns for a symbol strictly alternate entry
\* (BUY / SELL) and EXIT, starting with an entry; a call returns at most one
\* signal; and the exit_price of every EXIT is the sl or the tp of the entry signal
\* just before it.
SignalsAlternate ==
    [][ Ticked =>
           /\ Alternates(signals')
           /\ Len(signals') \in {Len(signals), Len(signals) + 1}
           /\ (Len(signals') > Len(signals) <=> result' # NoSignal)
           /\ (result' # NoSignal => Last(signals').sig = result')
      ]_vars

SignalsAlternateWitness ==
    /\ Len(signals) = 3
    /\ signals[1].sig.signal = "SELL"
    /\ signals[2].sig.signal = "EXIT"
    /\ signals[2].sig.exit_price = signals[1].sig.sl
    /\ signals[3].sig.signal = "BUY"

\* the trade t was entered on one of the first n rows of the table d, at its close
EnteredAtClose(t, d, n) ==
    {j \in 1..n : d[j].timestamp = t.entry_time /\ d[j].close = t.entry_price} # {}

\* C34: the trade list of the batch driver holds closed trades only, in the order of
\* time: every record has entry_time < exit_time and entry_price equal to the close
\* of its entry candle, a trade ends no later than the next one is entered (the
\* position that is open, which becomes the next record, was entered no earlier
\* than the last record's exit), a record is appended exactly when the open
\* position is closed, and a position that is still open has no record.
ClosedTradesInOrder ==
    [][ BatchStepped =>
           /\ \A i \in 1..Len(trades') :
                 /\ trades'[i].entry_time < trades'[i].exit_time
                 /\ EnteredAtClose(trades'[i], bt_df', bt_i')
                 /\ i > 1 => trades'[i - 1].exit_time <= trades'[i].entry_time
           /\ bt_position' # NoPosition =>
                 /\ \A i \in 1..Len(trades') :
                       /\ trades'[i].exit_time <= bt_position'.entry.timestamp
                       /\ trades'[i].entry_time # bt_position'.entry.timestamp
           /\ IF bt_position # NoPosition /\ bt_position' = NoPosition
              THEN /\ Len(trades') = Len(trades) + 1
                   /\ SubSeq(trades', 1, Len(trades)) = trades
                   /\ Last(trades').entry_time = bt_position.entry.timestamp
                   /\ Last(trades').exit_time = bt_df'[bt_i'].timestamp
              ELSE trades' = trades
      ]_vars

ClosedTradesInOrderWitness ==
    /\ mode = "batch"
    /\ Len(trades) = 1
    /\ bt_position # NoPosition
    /\ trades[1].exit_time < bt_position.entry.timestamp
    /\ bt_i = Len(bt_df)

\* C35: the seeding at startup always completes: whatever the historical-data API
\* answers, every request failing or returning no candles included,
\* fetch_and_store_candles comes to its end and the construction of the engine
\* returns.
SeedingCompletes == <>(seeding.pc = "done")

\* the candle c, as the fetcher built it, is a row of the series d
InSeries(c, d) ==
    {j \in 1..Len(d) : d[j] = Candle(c.timestamp, c.body.open, c.body.high, c.body.low,
                                     c.body.close, c.body.volume)} # {}

\* C36: under the default configuration (INTERVAL not set) the candles that
\* fetch_and_store_candles has just stored for the symbol are all in the series the
\* reload of _load_historical_data gives the engine: the writer and the reader use
\* the same (symbol, interval) key.
StoredCandlesSeeded ==
    seeding.pc = "done" /\ seeding.instrument_key # None /\ seeding.INTERVAL = None =>
        \A i \in 1..Len(seeding.all_candles) : InSeries(seeding.all_candles[i], seeding.df)

\* the step is a call of the controller's method call
Called(call) == bot'.last.call = call /\ bot' # bot

SameProcess == /\ bot'.trading_process = bot.trading_process
               /\ bot'.trading_status = bot.trading_status
               /\ bot'.nlive = bot.nlive

\* start_trading and stop_trading do what the status tells them to, and at most one
\* trading subprocess is alive
StartStopDiscipline ==
    [][ /\ Called("start_trading") =>
              IF bot.trading_status = "running"
              THEN ~bot'.last.success /\ SameProcess
              ELSE IF bot'.last.success
                   THEN bot'.trading_status = "running" /\ bot'.nlive = bot.nlive + 1
                   ELSE SameProcess
        /\ Called("stop_trading") =>
              IF bot.trading_status = "stopped"
              THEN ~bot'.last.success /\ SameProcess
              ELSE /\ bot'.last.success
                   /\ bot'.trading_status = "stopped"
                   /\ bot'.trading_process = None
                   /\ bot'.nlive = 0
        /\ bot'.nlive > bot.nlive => Called("start_trading") /\ bot.trading_status = "stopped"
        /\ bot'.nlive <= 1
      ]_vars

\* trading_status is 'running' exactly when a trading subprocess is alive
RunningIffAlive ==
    mode = "bot" => (bot.trading_status = "running" <=> bot.nlive > 0)

\* C37: the bot controller runs at most one trading subprocess: start_trading spawns
\* only when trading_status is 'stopped', a start while 'running' and a stop while
\* 'stopped' are refused and change nothing, after stop_trading the status is
\* 'stopped' and no handle is kept, and trading_status is 'running' exactly when a
\* trading subprocess is alive.
SingleTradingProcess == StartStopDiscipline /\ []RunningIffAlive

\* check_trading_hours has run in this step, at the minute ClockTimes[bot'.clock]
Checked == bot'.last.handler = "check_trading_hours" /\ bot'.clock = bot.clock + 1

\* a run of check_trading_hours outside the trading hours or at their end leaves
\* the status 'stopped'
AutoStop ==
    [][ Checked /\ ( \/ ClockTimes[bot'.clock] < TRADE_START_TIME
                     \/ ClockTimes[bot'.clock] >= TRADE_END_TIME ) =>
           bot'.trading_status = "stopped" ]_vars

\* the controller is up with status 'stopped' and check_trading_hours will run next
\* at a minute inside the trading hours, before their end
StoppedInHours ==
    /\ mode = "bot"
    /\ bot.AUTHORIZED_USERS # {}
    /\ bot.trading_status = "stopped"
    /\ bot.clock < Len(ClockTimes)
    /\ TRADE_START_TIME <= ClockTimes[bot.clock + 1]
    /\ ClockTimes[bot.clock + 1] < TRADE_END_TIME

\* C38: a run of check_trading_hours at a minute outside the trading hours, or at
\* exactly TRADE_END_TIME, leaves trading_status 'stopped'; and when the controller
\* is up with status 'stopped' during the trading hours, the trading process is
\* started by a later run of check_trading_hours of the same day.
ScheduledStartStop ==
    AutoStop /\ [](StoppedInHours => <>(mode = "bot" /\ bot.trading_status = "running"))

\* a handler has answered the user in this step
Handled == bot'.last.handler \in {"button_handler", "controller_command", "telegram_command"}
               /\ bot' # bot

\* C39: the handlers of both Telegram bots act only for users listed in
\* AUTHORIZED_USERS: for a user id that is not in the list, the empty list included,
\* a handler does nothing: it starts and stops nothing and shows no status,
\* positions or statistics.
AuthorizedOnly ==
    [][ Handled /\ bot'.last.user \notin bot.AUTHORIZED_USERS =>
           ~bot'.last.acted /\ SameProcess ]_vars

=============================================================================
